---- MODULE Spec2Model ----
(***************************************************************************)
(* Model of the core of insider_finder.edge_scan: the statistics helpers   *)
(* (utils.py), the configuration (config.py), the feature engine           *)
(* (features.py) and the wallet scorer / market signal aggregator          *)
(* (scoring.py).                                                           *)
(*                                                                         *)
(* Python floats are modelled as exact rationals <<n, d>> with d > 0 in    *)
(* lowest terms; None is the pair <<0, 0>>, which no rational equals.      *)
(* Only the mean of _compute_conviction_z is rounded as a float operation  *)
(* rounds (Fl), since its rounding decides a comparison with zero.         *)
(* A call that raises is recorded in the field "raised" of its result.     *)
(***************************************************************************)
EXTENDS Integers, Sequences, FiniteSets, TLC

VARIABLES cfg, pc, feat, w, score, wallet_scores, yes_mid_price, signal,
          current_stake_usd, closed_positions, features,
          wallets_data, scores, arg_values, arg_clip_pct, win_result,
          util_args, util_result, calls, log, last_call,
          max_attempts, attempt, outcomes, sleeps, last_exception, outcome,
          args, market, holders, holder_idx, fetched, excluded, trace,
          exit_code, run_error

vars == <<cfg, pc, feat, w, score, wallet_scores, yes_mid_price, signal,
          current_stake_usd, closed_positions, features,
          wallets_data, scores, arg_values, arg_clip_pct, win_result,
          util_args, util_result, calls, log, last_call,
          max_attempts, attempt, outcomes, sleeps, last_exception, outcome,
          args, market, holders, holder_idx, fetched, excluded, trace,
          exit_code, run_error>>

\* The argument and the local list of compute_wallet_scores.
batchVars == <<wallets_data, scores>>

\* The arguments and the result of winsorize.
winsorizeVars == <<arg_values, arg_clip_pct, win_result>>

\* The arguments and the result of shrink_to_prior or weighted_mean.
callVars == <<util_args, util_result>>

\* The number of calls of a caller of the core stages, the scorer calls it
\* has made (arguments and result), and the name of its last call.
sessionVars == <<calls, log, last_call>>

\* One invocation of a function wrapped by with_retry: the decorator's
\* max_attempts, the loop variable, the results of the calls of the wrapped
\* function so far, the delays slept (before jitter), last_exception, and
\* what the wrapper returned or raised.
retryVars == <<max_attempts, attempt, outcomes, sleeps, last_exception, outcome>>

\* One run of run_analysis: the parsed arguments, the resolved market, the
\* holders and the loop position, what the history fetch gave for each
\* holder processed, the positions of the holders whose processing raised,
\* the stages and writes in the order they happened, the return value (-1
\* before the return) and the exception that left the function.
runVars == <<args, market, holders, holder_idx, fetched, excluded, trace,
             exit_code, run_error>>

\* The variables of the calls of the statistics helpers, of the caller and
\* of the retry wrapper.
helperVars == <<winsorizeVars, callVars, sessionVars, retryVars>>

utilVars == <<helperVars, runVars>>

\* ------------------------------------------------------------------ floats

RECURSIVE GCD(_, _)
GCD(a, b) == IF b = 0 THEN a ELSE GCD(b, a % b)

IAbs(i) == IF i < 0 THEN -i ELSE i

\* The float n/d (d # 0), in lowest terms with a positive denominator.
Rat(n, d) ==
    LET g == GCD(IAbs(n), IAbs(d))
        s == IF d < 0 THEN -1 ELSE 1
    IN  <<s * (n \div g), s * (d \div g)>>

Num(i) == <<i, 1>>
None == <<0, 0>>

Zero == Num(0)
Half == Rat(1, 2)
One == Num(1)

\* The common factor of two denominators, divided out before a
\* cross-multiplication to keep the products small.
DenGCD(a, b) ==
    IF a[2] \in {0, 1} \/ b[2] \in {0, 1} THEN 1 ELSE GCD(a[2], b[2])

RAdd(a, b) ==
    LET g == DenGCD(a, b)
    IN  Rat(a[1] * (b[2] \div g) + b[1] * (a[2] \div g), (a[2] \div g) * b[2])
RSub(a, b) ==
    LET g == DenGCD(a, b)
    IN  Rat(a[1] * (b[2] \div g) - b[1] * (a[2] \div g), (a[2] \div g) * b[2])
\* GCD of two integers, 1 when both are zero.
CommonFactor(i, j) ==
    IF i = 1 \/ j = 1 \/ (i = 0 /\ j = 0) THEN 1 ELSE GCD(IAbs(i), IAbs(j))

RMul(a, b) ==
    LET g == CommonFactor(a[1], b[2])
        h == CommonFactor(b[1], a[2])
    IN  Rat((a[1] \div g) * (b[1] \div h), (a[2] \div h) * (b[2] \div g))
RNeg(a) == <<-a[1], a[2]>>
\* a / b for b # 0 (the callers guard against a zero divisor or raise).
RDiv(a, b) ==
    LET g == CommonFactor(a[1], b[1])
        h == CommonFactor(a[2], b[2])
    IN  Rat((a[1] \div g) * (b[2] \div h), (a[2] \div h) * (b[1] \div g))
RLe(a, b) == a[1] * b[2] <= b[1] * a[2]
RLt(a, b) == a[1] * b[2] < b[1] * a[2]
RMin(a, b) == IF RLt(b, a) THEN b ELSE a
RMax(a, b) == IF RLt(a, b) THEN b ELSE a
RAbs(a) == <<IAbs(a[1]), a[2]>>

\* Python's int(x): truncation toward zero.
Trunc(a) == IF a[1] >= 0 THEN a[1] \div a[2] ELSE -((-a[1]) \div a[2])

RECURSIVE RSum(_)
RSum(s) == IF s = <<>> THEN Zero ELSE RAdd(Head(s), RSum(Tail(s)))

\* ------------------------------------------------------------------ utils.py

clipUpperOnly(value, min_val, max_val) == RMax(min_val, value)

clip(value, min_val, max_val) == RMax(min_val, RMin(max_val, value))

normalize_to_unit_unshifted(value, min_val, max_val) ==
    IF max_val = min_val THEN Half
    ELSE RDiv(value, RSub(max_val, min_val))

normalize_to_unit(value, min_val, max_val) ==
    IF max_val = min_val THEN Half
    ELSE RDiv(RSub(value, min_val), RSub(max_val, min_val))

\* sorted(values)
RECURSIVE Insert(_, _)
Insert(x, s) ==
    IF s = <<>> THEN <<x>>
    ELSE IF RLe(x, Head(s)) THEN <<x>> \o s
    ELSE <<Head(s)>> \o Insert(x, Tail(s))

RECURSIVE Sorted(_)
Sorted(s) == IF s = <<>> THEN <<>> ELSE Insert(Head(s), Sorted(Tail(s)))

\* seq[idx] with Python's list indexing: 0-based, a negative index counts
\* from the end, an index outside [-n, n-1] raises IndexError (None here).
PyIndex(seq, idx) ==
    LET n == Len(seq)
    IN  IF idx >= n \/ idx < -n THEN None
        ELSE IF idx >= 0 THEN seq[idx + 1]
        ELSE seq[n + idx + 1]

\* winsorize(values, clip_pct)
winsorize(values, clip_pct) ==
    IF values = <<>> THEN [raised |-> "", value |-> <<>>]
    ELSE
      LET sorted_vals == Sorted(values)
          n == Len(sorted_vals)
          lower_idx == Trunc(RDiv(RMul(Num(n), RSub(One, clip_pct)), Num(2)))
          upper_idx == Trunc(RDiv(RMul(Num(n), RAdd(One, clip_pct)), Num(2)))
          lower_bound == IF lower_idx < n THEN PyIndex(sorted_vals, lower_idx)
                         ELSE sorted_vals[1]
          upper_bound == IF upper_idx < n THEN PyIndex(sorted_vals, upper_idx)
                         ELSE sorted_vals[n]
      IN  IF lower_bound = None \/ upper_bound = None
          THEN [raised |-> "IndexError", value |-> <<>>]
          ELSE [raised |-> "",
                value |-> [i \in 1..Len(values) |->
                              clip(values[i], lower_bound, upper_bound)]]

\* shrink_to_prior with the two weights exchanged.
shrink_to_prior_swapped(observed, prior, n_observations, n_prior) ==
    IF n_observations + n_prior = 0 THEN prior
    ELSE
      LET weight_obs == Rat(n_prior, n_observations + n_prior)
          weight_prior == Rat(n_observations, n_observations + n_prior)
      IN  RAdd(RMul(weight_obs, observed), RMul(weight_prior, prior))

\* shrink_to_prior(observed, prior, n_observations, n_prior)
shrink_to_prior(observed, prior, n_observations, n_prior) ==
    IF n_observations + n_prior = 0 THEN prior
    ELSE
      LET weight_obs == Rat(n_observations, n_observations + n_prior)
          weight_prior == Rat(n_prior, n_observations + n_prior)
      IN  RAdd(RMul(weight_obs, observed), RMul(weight_prior, prior))

\* weighted_mean with the test for empty values ahead of the length test.
weighted_mean_empty_first(values, weights) ==
    IF values = <<>> THEN [raised |-> "", value |-> Zero]
    ELSE IF Len(values) # Len(weights)
    THEN [raised |-> "ValueError", value |-> None]
    ELSE
      LET total_weight == RSum(weights)
      IN  IF total_weight = Zero
          THEN [raised |-> "ValueError", value |-> None]
          ELSE [raised |-> "",
                value |-> RDiv(RSum([i \in 1..Len(values) |->
                                        RMul(values[i], weights[i])]),
                               total_weight)]

\* weighted_mean(values, weights)
weighted_mean(values, weights) ==
    IF Len(values) # Len(weights) THEN [raised |-> "ValueError", value |-> None]
    ELSE IF values = <<>> THEN [raised |-> "", value |-> Zero]
    ELSE
      LET total_weight == RSum(weights)
      IN  IF total_weight = Zero
          THEN [raised |-> "ValueError", value |-> None]
          ELSE [raised |-> "",
                value |-> RDiv(RSum([i \in 1..Len(values) |->
                                        RMul(values[i], weights[i])]),
                               total_weight)]

RECURSIVE ISqrtIn(_, _, _)
\* The largest k in lo..hi with k * k <= x (lo * lo <= x); 46340 is the
\* largest k whose square is a 32-bit integer.
ISqrtIn(x, lo, hi) ==
    IF lo >= hi THEN lo
    ELSE LET mid == (lo + hi + 1) \div 2
         IN  IF mid * mid <= x THEN ISqrtIn(x, mid, hi)
             ELSE ISqrtIn(x, lo, mid - 1)

\* Digits kept below the unit by Sqrt, by the size of the numerator.
SqrtScale(n) ==
    IF n < 2000 THEN 1000
    ELSE IF n < 200000 THEN 100
    ELSE IF n < 20000000 THEN 10
    ELSE 1

\* value ** 0.5 for value >= 0: exact for the square of a float, otherwise
\* rounded down to 1/SqrtScale; like the float square root it is zero only
\* for zero.
Sqrt(a) ==
    IF a[1] = 0 THEN Zero
    ELSE LET rn == ISqrtIn(a[1], 0, 46340)
             rd == ISqrtIn(a[2], 0, 46340)
             k == SqrtScale(a[1])
             r == ISqrtIn((a[1] * k * k) \div a[2], 0, 46340)
         IN  IF rn * rn = a[1] /\ rd * rd = a[2] THEN Rat(rn, rd)
             ELSE IF r = 0 THEN Rat(1, k) ELSE Rat(r, k)

\* The integer nearest to the float a >= 0, ties going to the even one.
RoundHalfEven(a) ==
    LET f == a[1] \div a[2]
        twice == 2 * (a[1] - f * a[2])
    IN  IF twice > a[2] THEN f + 1
        ELSE IF twice < a[2] THEN f
        ELSE IF f % 2 = 0 THEN f ELSE f + 1

\* The result of one binary floating-point operation whose exact value is
\* a > 0 and whose significand, once scaled by the power of two e, lies in
\* [1024, 2048): round to nearest, ties to even.  The significand is kept
\* at 11 bits, in place of the 53 of a Python float, for the arithmetic to
\* stay within the integers of TLC.
RECURSIVE FlScaled(_, _)
FlScaled(a, e) ==
    LET m == RMul(a, e)
    IN  IF RLt(m, Num(1024)) THEN FlScaled(a, RMul(e, Num(2)))
        ELSE IF RLe(Num(2048), m) THEN FlScaled(a, RDiv(e, Num(2)))
        ELSE RDiv(Num(RoundHalfEven(m)), e)

\* The float nearest to the exact value a.
Fl(a) ==
    IF a[1] = 0 THEN Zero
    ELSE IF a[1] < 0 THEN RNeg(FlScaled(RNeg(a), One))
    ELSE FlScaled(a, One)

\* sum(values): the floats are added from the left, each addition rounded.
RECURSIVE FlSumFrom(_, _)
FlSumFrom(acc, s) ==
    IF s = <<>> THEN acc ELSE FlSumFrom(Fl(RAdd(acc, Head(s))), Tail(s))

FlSum(s) == FlSumFrom(Zero, s)

\* ------------------------------------------------------------------ config.py

history_min_sample == 5

DefaultHistory ==
    [lookback_quarters |-> 16, min_sample |-> history_min_sample]

DefaultFilters == [ignore_low_activity_usd |-> Num(250)]

DefaultWeights ==
    [win_rate |-> Rat(35, 100), pnl_per_usd |-> Rat(25, 100),
     timing_edge |-> Rat(20, 100), conviction_z |-> Rat(15, 100),
     consistency |-> Rat(5, 100)]

DefaultCaps ==
    [feature_clip_pct |-> Rat(95, 100),
     max_influence_single_wallet |-> Rat(33, 100)]

DefaultScoring ==
    [shrinkage_prior |-> Rat(50, 100), score_floor |-> Zero,
     score_ceiling |-> One]

DefaultMarketSignal ==
    [use_dir_from_price |-> TRUE, dir_weight |-> Rat(30, 100),
     holder_weight |-> Rat(70, 100)]

DefaultConfig ==
    [history |-> DefaultHistory, weights |-> DefaultWeights,
     filters |-> DefaultFilters,
     caps |-> DefaultCaps, scoring |-> DefaultScoring,
     market_signal |-> DefaultMarketSignal]

WeightsOf(a, b, c, d, e) ==
    [win_rate |-> a, pnl_per_usd |-> b, timing_edge |-> c,
     conviction_z |-> d, consistency |-> e]

WeightsTotal(self) ==
    RAdd(RAdd(RAdd(RAdd(self.win_rate, self.pnl_per_usd), self.timing_edge),
              self.conviction_z), self.consistency)

\* normalize without the test of the total: zero-sum weights are returned raw.
normalizeUnchecked(self) ==
    LET total == WeightsTotal(self)
    IN  [raised |-> "",
         value |-> [k \in DOMAIN self |->
                       IF total = Zero THEN self[k] ELSE RDiv(self[k], total)]]

\* Weights.normalize: the new Weights in "value", or the ValueError raised.
normalize(self) ==
    LET total == WeightsTotal(self)
    IN  IF total = Zero
        THEN [raised |-> "ValueError", value |-> self]
        ELSE [raised |-> "",
              value |-> WeightsOf(RDiv(self.win_rate, total),
                                  RDiv(self.pnl_per_usd, total),
                                  RDiv(self.timing_edge, total),
                                  RDiv(self.conviction_z, total),
                                  RDiv(self.consistency, total))]

\* In-place normalization: the receiver holds the normalized weights.
normalize_receiver_in_place(self) ==
    IF WeightsTotal(self) = Zero THEN self ELSE normalize(self).value

\* The receiver after self.normalize(): the method reads the five fields and
\* builds a new Weights; it assigns to no field of self.
normalize_receiver(self) == self

\* ------------------------------------------------------------------ scoring.py

\* A scorer with hidden state: the score drifts with the number of calls
\* made before.
compute_insider_likelihood_score_counting(f, c) ==
    LET n == normalize(c.weights)
        wn == n.value
        s == RAdd(RAdd(RAdd(RAdd(RMul(wn.win_rate, f.win_rate),
                                 RMul(wn.pnl_per_usd, f.pnl_per_usd)),
                            RMul(wn.timing_edge, f.timing_edge)),
                       RMul(wn.conviction_z, f.conviction_z)),
                  RMul(wn.consistency, f.consistency))
    IN  IF n.raised # ""
        THEN [raised |-> n.raised, value |-> None]
        ELSE [raised |-> "",
              value |-> clip(RAdd(s, Rat(calls, 10)),
                             c.scoring.score_floor, c.scoring.score_ceiling)]

\* compute_insider_likelihood_score: the ValueError of normalize propagates.
compute_insider_likelihood_score(f, c) ==
    LET n == normalize(c.weights)
        wn == n.value
        s == RAdd(RAdd(RAdd(RAdd(RMul(wn.win_rate, f.win_rate),
                                 RMul(wn.pnl_per_usd, f.pnl_per_usd)),
                            RMul(wn.timing_edge, f.timing_edge)),
                       RMul(wn.conviction_z, f.conviction_z)),
                  RMul(wn.consistency, f.consistency))
    IN  IF n.raised # ""
        THEN [raised |-> n.raised, value |-> None]
        ELSE [raised |-> "",
              value |-> clip(s, c.scoring.score_floor, c.scoring.score_ceiling)]

\* ------------------------------------------------------------------ inputs

NotCalled == [raised |-> "not called"]

\* No argument record: run_analysis is not running.
NoArgs == [config |-> "None", min_sample |-> <<>>, since_quarters |-> <<>>,
           include_book |-> FALSE, save_csv |-> FALSE, save_json |-> FALSE,
           save_md |-> FALSE]

\* last_exception = None
NoException == [kind |-> "None", status |-> 0]

\* Weight sets a YAML file can hold: the defaults, equal weights, one
\* weight only, all zero, mixed signs with a non-zero and with a zero sum.
WeightChoices ==
    {DefaultWeights,
     WeightsOf(One, One, One, One, One),
     WeightsOf(One, Zero, Zero, Zero, Zero),
     WeightsOf(Zero, Zero, Zero, Zero, Zero),
     WeightsOf(Num(2), Num(-1), Zero, Zero, Zero),
     WeightsOf(One, Num(-1), Zero, Zero, Zero)}

\* <<score_floor, score_ceiling>> pairs.
ScoreBoundChoices ==
    {<<Zero, One>>, <<Rat(1, 4), Rat(3, 4)>>, <<Rat(3, 5), One>>,
     <<Rat(4, 5), Rat(1, 5)>>}

ScoreConfigs ==
    {[DefaultConfig EXCEPT !.weights = ws, !.scoring.score_floor = b[1],
                           !.scoring.score_ceiling = b[2]] :
        ws \in WeightChoices, b \in ScoreBoundChoices}

UnitValues == {Zero, Half, One}

FeatureVectors ==
    [win_rate : UnitValues, pnl_per_usd : UnitValues, timing_edge : UnitValues,
     conviction_z : UnitValues, consistency : UnitValues]

NoFeat == [win_rate |-> Half, pnl_per_usd |-> Half, timing_edge |-> Half,
           conviction_z |-> Half, consistency |-> Half]

\* ------------------------------------------------------------------ wallet scorer

InitCommon ==
    /\ pc = "start"
    /\ feat = NoFeat
    /\ w = NotCalled
    /\ score = NotCalled
    /\ wallet_scores = <<>>
    /\ yes_mid_price = None
    /\ signal = NotCalled
    /\ current_stake_usd = Zero
    /\ closed_positions = <<>>
    /\ features = NotCalled
    /\ wallets_data = <<>>
    /\ scores = <<>>
    /\ arg_values = <<>>
    /\ arg_clip_pct = None
    /\ win_result = NotCalled
    /\ util_args = <<>>
    /\ util_result = NotCalled
    /\ calls = 0
    /\ log = <<>>
    /\ last_call = ""
    /\ max_attempts = 0
    /\ attempt = 0
    /\ outcomes = <<>>
    /\ sleeps = <<>>
    /\ last_exception = NoException
    /\ outcome = NotCalled
    /\ args = NoArgs
    /\ market = "None"
    /\ holders = <<>>
    /\ holder_idx = 0
    /\ fetched = <<>>
    /\ excluded = <<>>
    /\ trace = <<>>
    /\ exit_code = -1
    /\ run_error = ""

InitScore ==
    /\ cfg \in ScoreConfigs
    /\ InitCommon

\* w = cfg.weights.normalize()
Normalize ==
    /\ pc = "start"
    /\ w' = normalize(cfg.weights)
    /\ pc' = "normalize"
    /\ UNCHANGED <<cfg, feat, score, wallet_scores, yes_mid_price, signal,
                   current_stake_usd, closed_positions, features,
                   batchVars, utilVars>>

\* score = compute_insider_likelihood_score(feat, cfg)
Score ==
    /\ pc = "start"
    /\ \E f \in FeatureVectors :
          /\ feat' = f
          /\ score' = compute_insider_likelihood_score(f, cfg)
    /\ pc' = "score"
    /\ UNCHANGED <<cfg, w, wallet_scores, yes_mid_price, signal,
                   current_stake_usd, closed_positions, features,
                   batchVars, utilVars>>

NextScore == Normalize \/ Score

SpecScore == InitScore /\ [][NextScore]_vars

\* ------------------------------------------------------------------ market signal aggregator

\* total_stake = sum(w.current_stake_usd for w in wallet_scores)
TotalStake(ws) == RSum([i \in 1..Len(ws) |-> ws[i].current_stake_usd])

TotalStakeIsZeroNever(total_stake) == FALSE

\* The test "total_stake == 0" that selects holder_signal = 0.0.
TotalStakeIsZero(total_stake) == total_stake = Zero

\* w.current_stake_usd / total_stake; a zero divisor raises ZeroDivisionError,
\* recorded as None.
StakeShare(stake, total_stake) ==
    IF total_stake = Zero THEN None ELSE RDiv(stake, total_stake)

InfluenceWeightUncapped(share, c) == share

\* weight = min(stake / total_stake, cfg.caps.max_influence_single_wallet)
InfluenceWeight(share, c) == RMin(share, c.caps.max_influence_single_wallet)

\* 1 if w.current_side == "YES" else -1
SideSign(side) == IF side = "YES" THEN One ELSE Num(-1)

\* Contributions with the capped weights rescaled to sum to 1.
ContributionsRenormalized(ws, total_stake, c) ==
    LET wt == [i \in 1..Len(ws) |->
                  RMin(StakeShare(ws[i].current_stake_usd, total_stake),
                       c.caps.max_influence_single_wallet)]
        sw == RSum(wt)
    IN  [i \in 1..Len(ws) |->
            RMul(RMul(ws[i].insider_likelihood_score,
                      IF sw = Zero THEN wt[i] ELSE RDiv(wt[i], sw)),
                 IF ws[i].current_side = "YES" THEN One ELSE Num(-1))]

\* The list "contributions" built by the loop over wallet_scores.
Contributions(ws, total_stake, c) ==
    [i \in 1..Len(ws) |->
        RMul(RMul(ws[i].insider_likelihood_score,
                  InfluenceWeight(StakeShare(ws[i].current_stake_usd,
                                             total_stake), c)),
             SideSign(ws[i].current_side))]

DirScoreIgnoringFlag(price, c) ==
    IF price # None THEN RMul(RSub(price, Half), Num(2)) ELSE None

\* dir_score = (yes_mid_price - 0.5) * 2, or None
DirScore(price, c) ==
    IF price # None /\ c.market_signal.use_dir_from_price
    THEN RMul(RSub(price, Half), Num(2))
    ELSE None

\* final_score without the price term.
FinalScoreHolderOnly(holder_signal, dir_score, c) ==
    IF dir_score # None
    THEN RMul(c.market_signal.holder_weight, holder_signal)
    ELSE holder_signal

\* final_score before the last clip
FinalScore(holder_signal, dir_score, c) ==
    IF dir_score # None
    THEN RAdd(RMul(c.market_signal.holder_weight, holder_signal),
              RMul(c.market_signal.dir_weight, dir_score))
    ELSE holder_signal

DirectionStrict(final_score) ==
    IF RLt(Rat(25, 100), final_score) THEN "UP"
    ELSE IF RLt(final_score, Rat(-25, 100)) THEN "DOWN"
    ELSE "FLAT"

UpThreshold == Rat(25, 100)
DownThreshold == Rat(-25, 100)

Direction(final_score) ==
    IF RLe(UpThreshold, final_score) THEN "UP"
    ELSE IF RLe(final_score, DownThreshold) THEN "DOWN"
    ELSE "FLAT"

EmptySignal ==
    [raised |-> "", holder_signal |-> Zero, dir_score |-> None,
     final_score |-> Zero, direction |-> "FLAT", top_wallets_count |-> 0,
     total_stake_usd |-> Zero]

compute_market_signal(ws, price, c) ==
    IF ws = <<>> THEN EmptySignal
    ELSE
      LET total_stake == TotalStake(ws)
          zero == TotalStakeIsZero(total_stake)
          holder_sum == IF zero THEN Zero
                        ELSE RSum(Contributions(ws, total_stake, c))
          holder_signal == clip(holder_sum, Num(-1), One)
          dir_score == DirScore(price, c)
          final_score == clip(FinalScore(holder_signal, dir_score, c),
                              Num(-1), One)
      IN  IF ~zero /\ total_stake = Zero
          THEN [raised |-> "ZeroDivisionError"]
          ELSE [raised |-> "", holder_signal |-> holder_signal,
                dir_score |-> dir_score, final_score |-> final_score,
                direction |-> Direction(final_score),
                top_wallets_count |-> Len(ws),
                total_stake_usd |-> total_stake]

MaxWallets == 2

ScoreValues == {Zero, Rat(4, 5), One}
StakeValues == {Zero, Num(4000), Num(6000)}
Sides == {"YES", "NO"}

\* The fields of a WalletScore that compute_market_signal reads.
WalletScores ==
    [insider_likelihood_score : ScoreValues, current_stake_usd : StakeValues,
     current_side : Sides]

WalletLists == UNION {[1..n -> WalletScores] : n \in 0..MaxWallets}

MidPrices == {None, Rat(3, 8), Rat(3, 4), One}

CapChoices == {Rat(33, 100), One}
BlendChoices == {<<Rat(70, 100), Rat(30, 100)>>, <<One, One>>}

\* The defaults with the cap varied, and with price direction switched off
\* or blended with either pair of weights.
SignalConfigs ==
    {[DefaultConfig EXCEPT !.caps.max_influence_single_wallet = cap,
                           !.market_signal.holder_weight = b[1],
                           !.market_signal.dir_weight = b[2]] :
        cap \in CapChoices, b \in BlendChoices}
    \cup {[DefaultConfig EXCEPT !.caps.max_influence_single_wallet = cap,
                                !.market_signal.use_dir_from_price = FALSE] :
            cap \in CapChoices}

InitSignal ==
    /\ cfg \in SignalConfigs
    /\ InitCommon

\* signal = compute_market_signal(wallet_scores, yes_mid_price, cfg)
MarketSignal ==
    /\ pc = "start"
    /\ \E ws \in WalletLists, price \in MidPrices :
          /\ wallet_scores' = ws
          /\ yes_mid_price' = price
          /\ signal' = compute_market_signal(ws, price, cfg)
    /\ pc' = "signal"
    /\ UNCHANGED <<cfg, feat, w, score, current_stake_usd, closed_positions,
                   features, batchVars, utilVars>>

NextSignal == MarketSignal

SpecSignal == InitSignal /\ [][NextSignal]_vars

\* ------------------------------------------------------------------ features.py

\* p.amount_risked or p.pnl_usd: None and 0 are falsy.
RiskedOrPnl(p) ==
    IF p.amount_risked = None \/ p.amount_risked = Zero THEN p.pnl_usd
    ELSE p.amount_risked

\* earnings_positions: the positions whose title matches the configured regex
EarningsPositions(positions) ==
    SelectSeq(positions, LAMBDA p : p.title_matches)

_compute_win_rate(positions, c) ==
    IF positions = <<>>
    THEN [raised |-> "", value |-> c.scoring.shrinkage_prior]
    ELSE
      LET stakes == [i \in 1..Len(positions) |-> RAbs(RiskedOrPnl(positions[i]))]
          win_values == [i \in 1..Len(positions) |->
                            IF positions[i].was_winner THEN One ELSE Zero]
          observed_wr == weighted_mean(win_values, stakes)
      IN  IF RSum(stakes) = Zero
          THEN [raised |-> "", value |-> c.scoring.shrinkage_prior]
          ELSE IF observed_wr.raised # ""
          THEN [raised |-> observed_wr.raised, value |-> None]
          ELSE [raised |-> "",
                value |-> clip(shrink_to_prior(observed_wr.value,
                                               c.scoring.shrinkage_prior,
                                               Len(positions),
                                               c.history.min_sample),
                               Zero, One)]

_compute_pnl_per_usd(positions, c) ==
    LET risky == SelectSeq(positions,
                           LAMBDA p : RLt(Zero, RAbs(RiskedOrPnl(p))))
        pnl_ratios == [i \in 1..Len(risky) |->
                          RDiv(risky[i].pnl_usd, RAbs(RiskedOrPnl(risky[i])))]
        winsorized == winsorize(pnl_ratios, c.caps.feature_clip_pct)
        sorted_ratios == Sorted(winsorized.value)
        median_pnl == sorted_ratios[(Len(sorted_ratios) \div 2) + 1]
    IN  IF positions = <<>> \/ pnl_ratios = <<>>
        THEN [raised |-> "", value |-> Half]
        ELSE IF winsorized.raised # ""
        THEN [raised |-> winsorized.raised, value |-> None]
        ELSE [raised |-> "",
              value |-> clip(normalize_to_unit(median_pnl, Rat(-1, 2), Rat(3, 2)),
                             Zero, One)]

_compute_timing_edge_by_trades(trades, c) ==
    IF trades = <<>> THEN Half ELSE One

_compute_timing_edge(trades, c) == Half

\* mean_stake is the rounded quotient of the rounded sum, which decides
\* whether std_stake is zero; the later operations are computed exactly.
_compute_conviction_z(current_stake, positions, c) ==
    LET staked == SelectSeq(positions, LAMBDA p : RiskedOrPnl(p) # Zero)
        stakes == [i \in 1..Len(staked) |-> RAbs(RiskedOrPnl(staked[i]))]
        n == Num(Len(stakes))
        mean_stake == Fl(RDiv(FlSum(stakes), n))
        variance == RDiv(RSum([i \in 1..Len(stakes) |->
                                  RMul(RSub(stakes[i], mean_stake),
                                       RSub(stakes[i], mean_stake))]), n)
        std_stake == Sqrt(variance)
        z == RDiv(RSub(current_stake, mean_stake), std_stake)
    IN  IF positions = <<>> \/ stakes = <<>> THEN Half
        ELSE IF std_stake = Zero THEN Half
        ELSE clip(normalize_to_unit(z, Num(-3), Num(3)), Zero, One)

_compute_consistency(positions, c) == Half

\* compute_features: (FeatureVector, sample_size), or the exception of the
\* first sub-computation that raises.
compute_features(stake, positions, trades, c) ==
    LET earnings_positions == EarningsPositions(positions)
        win_rate == _compute_win_rate(earnings_positions, c)
        pnl_per_usd == _compute_pnl_per_usd(earnings_positions, c)
    IN  IF win_rate.raised # "" THEN [raised |-> win_rate.raised]
        ELSE IF pnl_per_usd.raised # "" THEN [raised |-> pnl_per_usd.raised]
        ELSE [raised |-> "",
              value |-> [win_rate |-> win_rate.value,
                         pnl_per_usd |-> pnl_per_usd.value,
                         timing_edge |-> _compute_timing_edge(trades, c),
                         conviction_z |->
                             _compute_conviction_z(stake, earnings_positions, c),
                         consistency |->
                             _compute_consistency(earnings_positions, c)],
              sample_size |-> Len(earnings_positions)]

MaxPositions == 2

PnlValues == {Num(-1000), Zero, Num(2000)}
RiskedValues == {None, Zero, Num(3000)}

\* A closed position whose title does not match the earnings regex.
OtherPosition ==
    [title_matches |-> FALSE, pnl_usd |-> Num(2000), was_winner |-> TRUE,
     amount_risked |-> Num(3000)]

\* Earnings positions: without amount_risked, any pnl and flag; with
\* amount_risked 0, a pnl of zero; with amount_risked 3000, a loss or a gain
\* flagged as such.  And the position of another title.
ClosedPositions ==
    {p \in [title_matches : {TRUE}, pnl_usd : PnlValues, was_winner : BOOLEAN,
            amount_risked : RiskedValues] :
        \/ p.amount_risked = None
        \/ p.amount_risked = Zero /\ p.pnl_usd = Zero /\ ~p.was_winner
        \/ /\ p.amount_risked = Num(3000)
           /\ p.pnl_usd # Zero
           /\ p.was_winner = RLt(Zero, p.pnl_usd)}
    \cup {OtherPosition}

MaxHistory == 3

\* An earnings position with the stake k, won (pnl = k) or lost (pnl = -k).
HistoryPosition(k, won) ==
    [title_matches |-> TRUE,
     pnl_usd |-> IF won THEN Num(k) ELSE Num(-k),
     was_winner |-> won,
     amount_risked |-> Num(k)]

\* The positions of the longer histories.
HistoryPositions ==
    {HistoryPosition(1000, TRUE), HistoryPosition(2000, FALSE),
     HistoryPosition(2000, TRUE), HistoryPosition(3000, TRUE)}

\* A won earnings position with a stake of 0.1.
DimePosition ==
    [title_matches |-> TRUE, pnl_usd |-> Fl(Rat(1, 10)), was_winner |-> TRUE,
     amount_risked |-> Fl(Rat(1, 10))]

HistoryLists ==
    UNION {[1..n -> HistoryPositions] : n \in 3..MaxHistory}
    \cup {[i \in 1..n |-> DimePosition] : n \in 1..MaxHistory}

PositionLists ==
    UNION {[1..n -> ClosedPositions] : n \in 0..MaxPositions}
    \cup HistoryLists

CurrentStakes == {Zero, Num(2000), Num(10000)}

\* The trade list: empty, or one trade.
TradeLists == {<<>>, <<"BUY">>}

PriorChoices == {Half, Rat(3, 2)}
MinSampleChoices == {history_min_sample, 0, -1}
ClipPctChoices == {Rat(95, 100), Rat(80, 100), Num(95)}

\* The defaults with the prior and the minimum sample varied, and with the
\* clip percentile varied.
FeatureConfigs ==
    {[DefaultConfig EXCEPT !.scoring.shrinkage_prior = pr,
                           !.history.min_sample = ms] :
        pr \in PriorChoices, ms \in MinSampleChoices}
    \cup {[DefaultConfig EXCEPT !.caps.feature_clip_pct = cp] :
            cp \in ClipPctChoices}

InitFeatures ==
    /\ cfg \in FeatureConfigs
    /\ InitCommon

\* features = compute_features(address, current_stake_usd, closed_positions,
\*                             trades, cfg); the trade list is passed on to
\* _compute_timing_edge and read nowhere.
Features ==
    /\ pc = "start"
    /\ \E stake \in CurrentStakes, positions \in PositionLists,
          trades \in TradeLists :
          /\ current_stake_usd' = stake
          /\ closed_positions' = positions
          /\ features' = compute_features(stake, positions, trades, cfg)
    /\ pc' = "features"
    /\ UNCHANGED <<cfg, feat, w, score, wallet_scores, yes_mid_price, signal,
                   batchVars, utilVars>>

NextFeatures == Features

SpecFeatures == InitFeatures /\ [][NextFeatures]_vars

\* ------------------------------------------------------------------ wallet scorer: batch

side_sign_ignoring_case(side) ==
    IF side \in {"YES", "yes"} THEN One ELSE Num(-1)

\* side_sign = 1.0 if side == "YES" else -1.0
side_sign(side) == IF side = "YES" THEN One ELSE Num(-1)

low_sample_inclusive(sample_size, c) == sample_size <= c.history.min_sample

\* low_sample = sample_size < cfg.history.min_sample
low_sample(sample_size, c) == sample_size < c.history.min_sample

\* One iteration of the loop of compute_wallet_scores over the tuple t: the
\* WalletScore appended, or the exception of the score computation.
WalletScoreOf(t, c) ==
    LET ils == compute_insider_likelihood_score(t.features, c)
    IN  IF ils.raised # "" THEN [raised |-> ils.raised]
        ELSE [raised |-> "",
              value |-> [address |-> t.address,
                         username |-> t.username,
                         current_stake_usd |-> t.stake_usd,
                         current_side |-> t.side,
                         features |-> t.features,
                         insider_likelihood_score |-> ils.value,
                         signed_contribution |->
                             RMul(RMul(ils.value, t.stake_usd), side_sign(t.side)),
                         sample_size |-> t.sample_size,
                         low_sample_flag |-> low_sample(t.sample_size, c)]]

PrependScore(list, ws) == <<ws>> \o list

\* scores.append(WalletScore(...))
AppendScore(list, ws) == Append(list, ws)

MaxBatch == 2

\* Feature vectors handed to the scorer: the neutral one and an uneven one.
BatchFeatures ==
    {NoFeat,
     [win_rate |-> Rat(9, 16), pnl_per_usd |-> Rat(1, 4), timing_edge |-> Half,
      conviction_z |-> One, consistency |-> Half]}

\* (address, username, stake_usd, side, features, sample_size); the username
\* None is the string "None".
WalletTuples ==
    [address : {"0xa", "0xb"}, username : {"alice", "None"},
     stake_usd : {Zero, Num(4000), Num(6000)}, side : {"YES", "NO", "yes"},
     features : BatchFeatures, sample_size : {3, 5, 6}]

\* The tuples that lists of two and more wallets are made of.
CoreTuples ==
    {t \in WalletTuples :
        \/ /\ t.address = "0xa" /\ t.username = "alice" /\ t.side = "YES"
           /\ t.stake_usd = Num(6000) /\ t.sample_size \in {3, 5}
        \/ /\ t.address = "0xb" /\ t.username = "None" /\ t.side \in {"NO", "yes"}
           /\ t.stake_usd = Num(4000) /\ t.sample_size = 5
           /\ t.features = NoFeat}

WalletDataLists ==
    {<<>>} \cup {<<t>> : t \in WalletTuples}
    \cup UNION {[1..n -> CoreTuples] : n \in 2..MaxBatch}

BatchWeightChoices ==
    {DefaultWeights,
     WeightsOf(One, Zero, Zero, Zero, Zero),
     WeightsOf(Zero, Zero, Zero, Zero, Zero),
     WeightsOf(One, Num(-1), Zero, Zero, Zero)}

BatchConfigs ==
    {[DefaultConfig EXCEPT !.weights = ws, !.history.min_sample = ms] :
        ws \in BatchWeightChoices, ms \in {history_min_sample, 3}}

InitBatch ==
    /\ cfg \in BatchConfigs
    /\ InitCommon

\* compute_wallet_scores(wallets_data, cfg) is entered: scores = []
CallWalletScores ==
    /\ pc = "start"
    /\ wallets_data' \in WalletDataLists
    /\ scores' = <<>>
    /\ pc' = "scoring"
    /\ UNCHANGED <<cfg, feat, w, score, wallet_scores, yes_mid_price, signal,
                   current_stake_usd, closed_positions, features, utilVars>>

\* One iteration of the loop: the next tuple is scored and appended, or the
\* exception of the score computation leaves compute_wallet_scores.
ScoreWallet ==
    /\ pc = "scoring"
    /\ Len(scores) < Len(wallets_data)
    /\ LET r == WalletScoreOf(wallets_data[Len(scores) + 1], cfg)
       IN  IF r.raised # ""
           THEN /\ pc' = "raised"
                /\ UNCHANGED scores
           ELSE /\ scores' = AppendScore(scores, r.value)
                /\ UNCHANGED pc
    /\ UNCHANGED <<cfg, feat, w, score, wallet_scores, yes_mid_price, signal,
                   current_stake_usd, closed_positions, features,
                   wallets_data, utilVars>>

\* return scores; the caller binds the list to wallet_scores
ReturnScores ==
    /\ pc = "scoring"
    /\ Len(scores) = Len(wallets_data)
    /\ wallet_scores' = scores
    /\ pc' = "scored"
    /\ UNCHANGED <<cfg, feat, w, score, yes_mid_price, signal,
                   current_stake_usd, closed_positions, features,
                   batchVars, utilVars>>

\* market_signal = compute_market_signal(wallet_scores, yes_mid_price, cfg)
SignalOfScores ==
    /\ pc = "scored"
    /\ \E price \in {None, Rat(3, 4)} :
          /\ yes_mid_price' = price
          /\ signal' = compute_market_signal(wallet_scores, price, cfg)
    /\ pc' = "aggregated"
    /\ UNCHANGED <<cfg, feat, w, score, wallet_scores,
                   current_stake_usd, closed_positions, features,
                   batchVars, utilVars>>

NextBatch == CallWalletScores \/ ScoreWallet \/ ReturnScores \/ SignalOfScores

SpecBatch == InitBatch /\ [][NextBatch]_vars

\* ------------------------------------------------------------------ utils.py: winsorize called

MaxValues == 3

WinsorizeValues == {Num(-1), Zero, Half, Num(2)}

ValueLists == UNION {[1..n -> WinsorizeValues] : n \in 0..MaxValues}

\* clip_pct is any float: inside [0, 1], above 1 and below 0.
ClipPcts ==
    {Zero, Half, Rat(80, 100), Rat(95, 100), One,
     Rat(3, 2), Num(2), Num(95), Num(-1)}

\* The float written 0.8: the nearest double lies above 4/5, so that
\* 1 - 0.8 is 0.19999999999999996; the excess is widened to 1/10000 for the
\* integers of TLC.  1 - 0.8, the products by n <= 10 and the halving are
\* exact float operations on it.
PointEight == Rat(8001, 10000)

\* [1, 2, 3, 4, 5, 6, 7, 8, 9, 10]
OneToTen == [i \in 1..10 |-> Num(i)]

WinsorizeInputs ==
    (ValueLists \X ClipPcts)
    \cup ({OneToTen} \X (ClipPcts \cup {PointEight}))
    \cup (ValueLists \X {PointEight})

InitWinsorize ==
    /\ cfg = DefaultConfig
    /\ InitCommon

\* win_result = winsorize(values, clip_pct)
Winsorize ==
    /\ pc = "start"
    /\ \E inp \in WinsorizeInputs :
          /\ arg_values' = inp[1]
          /\ arg_clip_pct' = inp[2]
          /\ win_result' = winsorize(inp[1], inp[2])
    /\ pc' = "winsorized"
    /\ UNCHANGED <<cfg, feat, w, score, wallet_scores, yes_mid_price, signal,
                   current_stake_usd, closed_positions, features, batchVars,
                   callVars, sessionVars, retryVars, runVars>>

NextWinsorize == Winsorize

SpecWinsorize == InitWinsorize /\ [][NextWinsorize]_vars

\* ------------------------------------------------------------------ utils.py: shrink_to_prior, weighted_mean called

ObservedValues == {Num(-1), Zero, Half, One, Num(2)}
PriorValues == {Zero, Half, Rat(3, 2)}
ObservationCounts == -1..3
PriorCounts == {-1, 0, 3, 5}

MaxMeanLen == 2

MeanValues == {Zero, One, Num(3)}
MeanWeights == {Num(-1), Zero, One, Num(2)}
MeanValueLists == UNION {[1..n -> MeanValues] : n \in 0..MaxMeanLen}
MeanWeightLists == UNION {[1..n -> MeanWeights] : n \in 0..MaxMeanLen}

InitUtils ==
    /\ cfg = DefaultConfig
    /\ InitCommon

\* util_result = shrink_to_prior(observed, prior, n_observations, n_prior)
ShrinkToPrior ==
    /\ pc = "start"
    /\ \E observed \in ObservedValues, prior \in PriorValues,
          n_observations \in ObservationCounts, n_prior \in PriorCounts :
          /\ util_args' = [observed |-> observed, prior |-> prior,
                           n_observations |-> n_observations,
                           n_prior |-> n_prior]
          /\ util_result' =
                [raised |-> "",
                 value |-> shrink_to_prior(observed, prior, n_observations,
                                           n_prior)]
    /\ pc' = "shrunk"
    /\ UNCHANGED <<cfg, feat, w, score, wallet_scores, yes_mid_price, signal,
                   current_stake_usd, closed_positions, features, batchVars,
                   winsorizeVars, sessionVars, retryVars, runVars>>

\* util_result = weighted_mean(values, weights)
WeightedMean ==
    /\ pc = "start"
    /\ \E vs \in MeanValueLists, ws \in MeanWeightLists :
          /\ util_args' = [values |-> vs, weights |-> ws]
          /\ util_result' = weighted_mean(vs, ws)
    /\ pc' = "averaged"
    /\ UNCHANGED <<cfg, feat, w, score, wallet_scores, yes_mid_price, signal,
                   current_stake_usd, closed_positions, features, batchVars,
                   winsorizeVars, sessionVars, retryVars, runVars>>

NextUtils == ShrinkToPrior \/ WeightedMean

SpecUtils == InitUtils /\ [][NextUtils]_vars

\* ------------------------------------------------------------------ a caller of the core stages

\* compute_wallet_scores(wallets_data, cfg) as one call: the list of
\* WalletScores, or the exception of the first tuple that fails.
RECURSIVE ScoreEach(_, _, _)

\* scores.append(WalletScore(...)) for the wallet just scored, or its
\* exception, which leaves the function
ScoreNext(ws, data, c, acc) ==
    IF ws.raised # "" THEN [raised |-> ws.raised]
    ELSE ScoreEach(Tail(data), c, Append(acc, ws.value))

\* for address, username, stake_usd, side, features, sample_size in
\* wallets_data
ScoreEach(data, c, acc) ==
    IF data = <<>> THEN [raised |-> "", value |-> acc]
    ELSE ScoreNext(WalletScoreOf(Head(data), c), data, c, acc)

\* scores = []; the loop; return scores
compute_wallet_scores(data, c) == ScoreEach(data, c, <<>>)

\* The value a call returned, or the previous value when it raised.
ValueOr(r, previous) == IF r.raised = "" THEN r.value ELSE previous

MaxCalls == 3

\* The two feature vectors the caller holds.
SessionFeatures == BatchFeatures

SessionConfigs ==
    {DefaultConfig,
     [DefaultConfig EXCEPT !.weights = WeightsOf(One, One, One, One, One)],
     [DefaultConfig EXCEPT !.weights = WeightsOf(Zero, Zero, Zero, Zero, Zero)]}

\* The caller holds a configuration, a feature vector, a history and a
\* list of wallet scores, and has made no call.
InitSession ==
    /\ InitCommon
    /\ cfg \in SessionConfigs

\* The caller takes up another feature vector.
TakeFeatures ==
    /\ \E f \in SessionFeatures \ {feat} : feat' = f
    /\ last_call' = "inputs"
    /\ UNCHANGED <<cfg, pc, w, score, wallet_scores, yes_mid_price, signal,
                   current_stake_usd, closed_positions, features, batchVars,
                   winsorizeVars, callVars, calls, log,
                   retryVars, runVars>>

\* The caller takes up another list of closed positions.
TakeHistory ==
    /\ \E ps \in {<<>>, <<HistoryPosition(3000, TRUE)>>} \ {closed_positions} :
          closed_positions' = ps
    /\ last_call' = "inputs"
    /\ UNCHANGED <<cfg, pc, feat, w, score, wallet_scores, yes_mid_price,
                   signal, current_stake_usd, features, batchVars,
                   winsorizeVars, callVars, calls, log,
                   retryVars, runVars>>

\* score = compute_insider_likelihood_score(feat, cfg)
CallScore ==
    /\ calls < MaxCalls
    /\ score' = compute_insider_likelihood_score(feat, cfg)
    /\ log' = Append(log, [feat |-> feat, cfg |-> cfg, score |-> score'])
    /\ cfg' = [cfg EXCEPT !.weights = normalize_receiver(@)]
    /\ calls' = calls + 1
    /\ last_call' = "score"
    /\ UNCHANGED <<pc, feat, w, wallet_scores, yes_mid_price, signal,
                   current_stake_usd, closed_positions, features, batchVars,
                   winsorizeVars, callVars,
                   retryVars, runVars>>

\* w = cfg.weights.normalize()
CallNormalize ==
    /\ calls < MaxCalls
    /\ w' = normalize(cfg.weights)
    /\ cfg' = [cfg EXCEPT !.weights = normalize_receiver(@)]
    /\ calls' = calls + 1
    /\ last_call' = "normalize"
    /\ UNCHANGED <<pc, feat, score, wallet_scores, yes_mid_price, signal,
                   current_stake_usd, closed_positions, features, batchVars,
                   winsorizeVars, callVars, log,
                   retryVars, runVars>>

\* wallet_scores = compute_wallet_scores([(address, None, 6000.0, "YES",
\*                                         feat, 3)], cfg)
CallWalletScoresOnce ==
    /\ calls < MaxCalls
    /\ wallets_data' = <<[address |-> "0xa", username |-> "None",
                          stake_usd |-> Num(6000), side |-> "YES",
                          features |-> feat, sample_size |-> 3]>>
    /\ wallet_scores' = ValueOr(compute_wallet_scores(wallets_data', cfg),
                                wallet_scores)
    /\ cfg' = [cfg EXCEPT !.weights = normalize_receiver(@)]
    /\ calls' = calls + 1
    /\ last_call' = "wallets"
    /\ UNCHANGED <<pc, feat, w, score, yes_mid_price, signal,
                   current_stake_usd, closed_positions, features, scores,
                   winsorizeVars, callVars, log,
                   retryVars, runVars>>

\* signal = compute_market_signal(wallet_scores, 0.75, cfg)
CallMarketSignal ==
    /\ calls < MaxCalls
    /\ yes_mid_price' = Rat(3, 4)
    /\ signal' = compute_market_signal(wallet_scores, Rat(3, 4), cfg)
    /\ calls' = calls + 1
    /\ last_call' = "signal"
    /\ UNCHANGED <<cfg, pc, feat, w, score, wallet_scores,
                   current_stake_usd, closed_positions, features, batchVars,
                   winsorizeVars, callVars, log,
                   retryVars, runVars>>

\* features = compute_features(address, 2000.0, closed_positions, [], cfg)
CallFeatures ==
    /\ calls < MaxCalls
    /\ current_stake_usd' = Num(2000)
    /\ features' = compute_features(Num(2000), closed_positions, <<>>, cfg)
    /\ calls' = calls + 1
    /\ last_call' = "features"
    /\ UNCHANGED <<cfg, pc, feat, w, score, wallet_scores, yes_mid_price,
                   signal, closed_positions, batchVars,
                   winsorizeVars, callVars, log,
                   retryVars, runVars>>

NextSession ==
    \/ TakeFeatures
    \/ TakeHistory
    \/ CallScore
    \/ CallNormalize
    \/ CallWalletScoresOnce
    \/ CallMarketSignal
    \/ CallFeatures

SpecSession == InitSession /\ [][NextSession]_vars

\* ------------------------------------------------------------------ utils.py: with_retry

MaxAttempts == 3

\* What one call of the wrapped function does: it returns, or raises an
\* httpx.HTTPStatusError with a status code, an httpx.RequestError, or an
\* exception of another type (the ValueError of response.json()).
StatusCodes == {400, 429, 499, 500, 503}

FuncResults ==
    {[kind |-> "ok", status |-> 200]}
    \cup {[kind |-> "HTTPStatusError", status |-> c] : c \in StatusCodes}
    \cup {[kind |-> "RequestError", status |-> 0],
          [kind |-> "ValueError", status |-> 0]}

\* except (httpx.HTTPStatusError, httpx.RequestError)
IsCaught(r) == r.kind \in {"HTTPStatusError", "RequestError"}

IsClientErrorAny4xx(r) ==
    r.kind = "HTTPStatusError" /\ 400 <= r.status /\ r.status < 500

\* isinstance(e, httpx.HTTPStatusError) and
\* 400 <= e.response.status_code < 500 and e.response.status_code != 429
IsClientError(r) ==
    r.kind = "HTTPStatusError" /\ 400 <= r.status /\ r.status < 500
    /\ r.status # 429

SleepsAfterEveryAttempt(a, max) == a < max

\* if attempt < max_attempts - 1
SleepsBeforeNext(a, max) == a < max - 1

\* delay = min(base_delay * (2**attempt), max_delay) with the defaults 1.0
\* and 30.0, before the jitter factor
Delay(a) == IF 2 ^ a < 30 THEN 2 ^ a ELSE 30

\* The wrapper is invoked: last_exception = None, and the loop begins.
Invoke ==
    /\ pc = "start"
    /\ max_attempts' \in 0..MaxAttempts
    /\ attempt' = 0
    /\ last_exception' = NoException
    /\ pc' = "loop"
    /\ UNCHANGED <<cfg, feat, w, score, wallet_scores, yes_mid_price, signal,
                   current_stake_usd, closed_positions, features, batchVars,
                   winsorizeVars, callVars, sessionVars, runVars, outcomes, sleeps,
                   outcome>>

\* One pass of the loop body up to the sleep: func is called; its result is
\* returned, or its exception is re-raised, propagates, or is kept for a
\* retry.
Attempt ==
    /\ pc = "loop"
    /\ attempt < max_attempts
    /\ \E r \in FuncResults :
          /\ outcomes' = Append(outcomes, r)
          /\ IF r.kind = "ok"
             THEN /\ outcome' = [raised |-> "", value |-> r]
                  /\ pc' = "returned"
                  /\ UNCHANGED <<attempt, last_exception>>
             ELSE IF ~IsCaught(r)
             THEN /\ outcome' = [raised |-> r.kind, value |-> r]
                  /\ pc' = "raised"
                  /\ UNCHANGED <<attempt, last_exception>>
             ELSE /\ last_exception' = r
                  /\ IF IsClientError(r)
                     THEN /\ outcome' = [raised |-> r.kind, value |-> r]
                          /\ pc' = "raised"
                          /\ UNCHANGED attempt
                     ELSE IF SleepsBeforeNext(attempt, max_attempts)
                     THEN /\ pc' = "sleep"
                          /\ UNCHANGED <<attempt, outcome>>
                     ELSE /\ attempt' = attempt + 1
                          /\ UNCHANGED <<pc, outcome>>
    /\ UNCHANGED <<cfg, feat, w, score, wallet_scores, yes_mid_price, signal,
                   current_stake_usd, closed_positions, features, batchVars,
                   winsorizeVars, callVars, sessionVars, runVars, max_attempts, sleeps>>

\* time.sleep(delay), and the loop goes on with the next attempt.
Sleep ==
    /\ pc = "sleep"
    /\ sleeps' = Append(sleeps, Delay(attempt))
    /\ attempt' = attempt + 1
    /\ pc' = "loop"
    /\ UNCHANGED <<cfg, feat, w, score, wallet_scores, yes_mid_price, signal,
                   current_stake_usd, closed_positions, features, batchVars,
                   winsorizeVars, callVars, sessionVars, runVars, max_attempts, outcomes,
                   last_exception, outcome>>

\* After the loop: raise last_exception, or RuntimeError when there is none.
Exhausted ==
    /\ pc = "loop"
    /\ attempt >= max_attempts
    /\ outcome' = IF last_exception # NoException
                  THEN [raised |-> last_exception.kind, value |-> last_exception]
                  ELSE [raised |-> "RuntimeError",
                        value |-> [kind |-> "RuntimeError", status |-> 0]]
    /\ pc' = "raised"
    /\ UNCHANGED <<cfg, feat, w, score, wallet_scores, yes_mid_price, signal,
                   current_stake_usd, closed_positions, features, batchVars,
                   winsorizeVars, callVars, sessionVars, runVars, max_attempts, attempt,
                   outcomes, sleeps, last_exception>>

InitRetry ==
    /\ cfg = DefaultConfig
    /\ InitCommon

NextRetry == Invoke \/ Attempt \/ Sleep \/ Exhausted

SpecRetry == InitRetry /\ [][NextRetry]_vars

\* ------------------------------------------------------------------ cli.py: run_analysis

MaxHolders == 2

\* cfg before the configuration is constructed.
NoConfig == [raised |-> "not constructed"]

\* Config.from_yaml(path) for the files of the runs: one that sets
\* caps.feature_clip_pct to 95, one whose weights are all zero, and a path
\* that does not exist.
from_yaml(path) ==
    IF path = "caps.yaml"
    THEN [raised |-> "",
          value |-> [DefaultConfig EXCEPT !.caps.feature_clip_pct = Num(95)]]
    ELSE IF path = "zero.yaml"
    THEN [raised |-> "",
          value |-> [DefaultConfig EXCEPT
                        !.weights = WeightsOf(Zero, Zero, Zero, Zero, Zero)]]
    ELSE [raised |-> "FileNotFoundError"]

apply_overrides_and_filters(c, a) ==
    [c EXCEPT !.history.min_sample =
                  IF a.min_sample # <<>> THEN a.min_sample[1] ELSE @,
              !.history.lookback_quarters =
                  IF a.since_quarters # <<>> THEN a.since_quarters[1] ELSE @,
              !.filters.ignore_low_activity_usd = Zero]

\* if args.min_sample is not None: cfg.history.min_sample = args.min_sample
\* if args.since_quarters is not None:
\*     cfg.history.lookback_quarters = args.since_quarters
apply_overrides(c, a) ==
    [c EXCEPT !.history.min_sample =
                  IF a.min_sample # <<>> THEN a.min_sample[1] ELSE @,
              !.history.lookback_quarters =
                  IF a.since_quarters # <<>> THEN a.since_quarters[1] ELSE @]

\* The parsed arguments: --config, --min-sample and --since-quarters (the
\* empty tuple is None), --include-book and the save flags, of which main()
\* sets all three when none is given.
SaveFlags ==
    {<<TRUE, TRUE, TRUE>>, <<TRUE, FALSE, FALSE>>, <<FALSE, TRUE, FALSE>>,
     <<FALSE, FALSE, TRUE>>}

Overrides == {<<<<>>, <<>>>>, <<<<3>>, <<8>>>>}

RunArgs ==
    {[config |-> f, min_sample |-> o[1], since_quarters |-> o[2],
      include_book |-> b, save_csv |-> sf[1], save_json |-> sf[2],
      save_md |-> sf[3]] :
        f \in {"None", "caps.yaml", "zero.yaml", "missing.yaml"},
        o \in Overrides, b \in BOOLEAN, sf \in SaveFlags}

\* What get_holders returns: holders with a stake on YES or on NO, and
\* holders whose amount is zero.
Holders ==
    {[address |-> "0xa", username |-> "alice", outcome_index |-> 1,
      amount_usd |-> Num(6000)],
     [address |-> "0xc", username |-> "None", outcome_index |-> 1,
      amount_usd |-> Zero],
     [address |-> "0xd", username |-> "dave", outcome_index |-> 0,
      amount_usd |-> Zero]}

HolderLists == UNION {[1..n -> Holders] : n \in 0..MaxHolders}

\* The closed positions the data API holds for an address.
RemoteHistory(address) ==
    IF address = "0xa" THEN <<HistoryPosition(3000, TRUE)>>
    ELSE IF address = "0xd" THEN <<HistoryPosition(3000, FALSE)>>
    ELSE <<>>

\* get_closed_positions(address): the positions, or the empty list when
\* http_get raises (the fetcher logs a warning and returns []).
get_closed_positions(address) ==
    {[http_failed |-> FALSE, positions |-> RemoteHistory(address)],
     [http_failed |-> TRUE, positions |-> <<>>]}

\* side = "YES" if holder.outcome_index == 1 else "NO"
SideOf(holder) == IF holder.outcome_index = 1 THEN "YES" ELSE "NO"

\* total_activity = sum(abs(p.amount_risked or p.pnl_usd)
\*                      for p in closed_positions)
total_activity(positions) ==
    RSum([i \in 1..Len(positions) |-> RAbs(RiskedOrPnl(positions[i]))])

\* total_activity < cfg.filters.ignore_low_activity_usd
\* and holder.amount_usd == 0
SkippedByFilter(holder, positions, c) ==
    /\ RLt(total_activity(positions), c.filters.ignore_low_activity_usd)
    /\ holder.amount_usd = Zero

\* (holder.address, holder.username, holder.amount_usd, side, features,
\*  sample_size)
WalletTuple(holder, f) ==
    [address |-> holder.address, username |-> holder.username,
     stake_usd |-> holder.amount_usd, side |-> SideOf(holder),
     features |-> f.value, sample_size |-> f.sample_size]

holder_failure_aborts(i) == "raised"

\* except Exception as e: logger.warning(...); continue
holder_failure_continues(i) == "loop"

no_wallets_never(data) == FALSE

\* if not wallets_data
no_wallets(data) == data = <<>>

InitRun ==
    /\ cfg = NoConfig
    /\ pc = "start"
    /\ feat = NoFeat
    /\ w = NotCalled
    /\ score = NotCalled
    /\ wallet_scores = <<>>
    /\ yes_mid_price = None
    /\ signal = NotCalled
    /\ current_stake_usd = Zero
    /\ closed_positions = <<>>
    /\ features = NotCalled
    /\ wallets_data = <<>>
    /\ scores = <<>>
    /\ arg_values = <<>>
    /\ arg_clip_pct = None
    /\ win_result = NotCalled
    /\ util_args = <<>>
    /\ util_result = NotCalled
    /\ calls = 0
    /\ log = <<>>
    /\ last_call = ""
    /\ max_attempts = 0
    /\ attempt = 0
    /\ outcomes = <<>>
    /\ sleeps = <<>>
    /\ last_exception = NoException
    /\ outcome = NotCalled
    /\ args \in RunArgs
    /\ market = "None"
    /\ holders = <<>>
    /\ holder_idx = 0
    /\ fetched = <<>>
    /\ excluded = <<>>
    /\ trace = <<>>
    /\ exit_code = -1
    /\ run_error = ""

\* The variables run_analysis never touches.
restVars == <<feat, w, score, current_stake_usd, closed_positions, scores,
              helperVars>>

\* cfg = Config.from_yaml(args.config) or cfg = Config.default()
LoadConfig ==
    /\ pc = "start"
    /\ IF args.config # "None"
       THEN LET loaded == from_yaml(args.config)
            IN  IF loaded.raised # ""
                THEN /\ run_error' = loaded.raised
                     /\ pc' = "raised"
                     /\ UNCHANGED cfg
                ELSE /\ cfg' = loaded.value
                     /\ pc' = "overrides"
                     /\ UNCHANGED run_error
       ELSE /\ cfg' = DefaultConfig
            /\ pc' = "overrides"
            /\ UNCHANGED run_error
    /\ UNCHANGED <<wallet_scores, yes_mid_price, signal, wallets_data, args,
                   market, holders, holder_idx, fetched, excluded, trace,
                   exit_code, features, restVars>>

\* Override config with CLI args
ApplyOverrides ==
    /\ pc = "overrides"
    /\ cfg' = apply_overrides(cfg, args)
    /\ pc' = "resolve"
    /\ UNCHANGED <<wallet_scores, yes_mid_price, signal, wallets_data, runVars,
                   features, restVars>>

\* market = resolve_market(args.market); any exception is logged and the
\* run returns 1.
ResolveMarket ==
    /\ pc = "resolve"
    /\ \E m \in {"unresolved", "resolved"} :
          /\ market' = m
          /\ IF m = "unresolved"
             THEN pc' = "returned" /\ exit_code' = 1
             ELSE pc' = "holders" /\ UNCHANGED exit_code
    /\ UNCHANGED <<cfg, wallet_scores, yes_mid_price, signal, wallets_data,
                   args, holders, holder_idx, fetched, excluded, trace,
                   run_error, features, restVars>>

\* holders = get_holders(...), which returns [] when its request fails;
\* if not holders: return 1
GetHolders ==
    /\ pc = "holders"
    /\ \E hs \in HolderLists :
          /\ holders' = hs
          /\ IF hs = <<>>
             THEN pc' = "returned" /\ exit_code' = 1
             ELSE pc' = "book" /\ UNCHANGED exit_code
    /\ UNCHANGED <<cfg, wallet_scores, yes_mid_price, signal, wallets_data,
                   args, market, holder_idx, fetched, excluded, trace,
                   run_error, features, restVars>>

\* yes_mid_price = None, replaced by the book's mid price when the book is
\* asked for, the market has a YES token and get_order_book returns a book
\* with a mid price; it stays None when the market has no token, the fetch
\* fails or the book has no mid price.  Then wallets_data = [] and the loop
\* begins.
FetchOrderBook ==
    /\ pc = "book"
    /\ IF args.include_book
       THEN yes_mid_price' \in {None, Rat(3, 4)}
       ELSE yes_mid_price' = None
    /\ wallets_data' = <<>>
    /\ holder_idx' = 1
    /\ pc' = "loop"
    /\ UNCHANGED <<cfg, wallet_scores, signal, args, market, holders, fetched,
                   excluded, trace, exit_code, run_error, features, restVars>>

\* One pass of the loop over the holders: the history is fetched, the
\* features are computed, and the holder is skipped by the activity filter,
\* appended to wallets_data, or, when an exception is raised, logged and
\* left out.
ProcessHolder ==
    /\ pc = "loop"
    /\ holder_idx <= Len(holders)
    /\ \E got \in get_closed_positions(holders[holder_idx].address) :
          /\ fetched' = Append(fetched, got)
          /\ features' = compute_features(holders[holder_idx].amount_usd,
                                         got.positions, <<>>, cfg)
    /\ IF features'.raised # ""
       THEN /\ excluded' = Append(excluded, holder_idx)
            /\ pc' = holder_failure_continues(holder_idx)
            /\ run_error' = IF pc' = "raised" THEN features'.raised
                            ELSE run_error
            /\ UNCHANGED wallets_data
       ELSE /\ wallets_data' =
                IF SkippedByFilter(holders[holder_idx],
                                   fetched'[holder_idx].positions, cfg)
                THEN wallets_data
                ELSE Append(wallets_data,
                            WalletTuple(holders[holder_idx], features'))
            /\ UNCHANGED <<excluded, pc, run_error>>
    /\ holder_idx' = holder_idx + 1
    /\ UNCHANGED <<cfg, wallet_scores, yes_mid_price, signal, args, market,
                   holders, trace, exit_code, restVars>>

\* wallet_scores is bound to what compute_wallet_scores returned, or its
\* exception leaves run_analysis.
Scored(r) ==
    IF r.raised # ""
    THEN /\ run_error' = r.raised
         /\ pc' = "raised"
         /\ UNCHANGED wallet_scores
    ELSE /\ wallet_scores' = r.value
         /\ pc' = "signal"
         /\ UNCHANGED run_error

\* After the loop: return 1 when no wallet is left, otherwise
\* wallet_scores = compute_wallet_scores(wallets_data, cfg)
ComputeScores ==
    /\ pc = "loop"
    /\ holder_idx > Len(holders)
    /\ IF no_wallets(wallets_data)
       THEN /\ pc' = "returned"
            /\ exit_code' = 1
            /\ UNCHANGED <<wallet_scores, trace, run_error>>
       ELSE /\ trace' = Append(trace, "scores")
            /\ Scored(compute_wallet_scores(wallets_data, cfg))
            /\ UNCHANGED exit_code
    /\ UNCHANGED <<cfg, yes_mid_price, signal, wallets_data, args, market,
                   holders, holder_idx, fetched, excluded, features, restVars>>

\* market_signal = compute_market_signal(wallet_scores, yes_mid_price, cfg),
\* then run_meta = RunMetadata(...) and outdir.mkdir(...)
ComputeSignal ==
    /\ pc = "signal"
    /\ signal' = compute_market_signal(wallet_scores, yes_mid_price, cfg)
    /\ trace' = Append(trace, "signal")
    /\ pc' = "csv"
    /\ UNCHANGED <<cfg, wallet_scores, yes_mid_price, wallets_data, args,
                   market, holders, holder_idx, fetched, excluded, exit_code,
                   run_error, features, restVars>>

\* if args.save_csv: write_csv(...), which may fail with an OSError
WriteCsv ==
    /\ pc = "csv"
    /\ IF args.save_csv
       THEN \E ok \in BOOLEAN :
               IF ok
               THEN /\ trace' = Append(trace, "holders.csv")
                    /\ pc' = "json"
                    /\ UNCHANGED run_error
               ELSE /\ run_error' = "OSError"
                    /\ pc' = "raised"
                    /\ UNCHANGED trace
       ELSE pc' = "json" /\ UNCHANGED <<trace, run_error>>
    /\ UNCHANGED <<cfg, wallet_scores, yes_mid_price, signal, wallets_data,
                   args, market, holders, holder_idx, fetched, excluded,
                   exit_code, features, restVars>>

\* if args.save_json: write_json(...)
WriteJson ==
    /\ pc = "json"
    /\ IF args.save_json
       THEN \E ok \in BOOLEAN :
               IF ok
               THEN /\ trace' = Append(trace, "holders.json")
                    /\ pc' = "md"
                    /\ UNCHANGED run_error
               ELSE /\ run_error' = "OSError"
                    /\ pc' = "raised"
                    /\ UNCHANGED trace
       ELSE pc' = "md" /\ UNCHANGED <<trace, run_error>>
    /\ UNCHANGED <<cfg, wallet_scores, yes_mid_price, signal, wallets_data,
                   args, market, holders, holder_idx, fetched, excluded,
                   exit_code, features, restVars>>

\* if args.save_md: write_markdown(...)
WriteMarkdown ==
    /\ pc = "md"
    /\ IF args.save_md
       THEN \E ok \in BOOLEAN :
               IF ok
               THEN /\ trace' = Append(trace, "report.md")
                    /\ pc' = "run_meta"
                    /\ UNCHANGED run_error
               ELSE /\ run_error' = "OSError"
                    /\ pc' = "raised"
                    /\ UNCHANGED trace
       ELSE pc' = "run_meta" /\ UNCHANGED <<trace, run_error>>
    /\ UNCHANGED <<cfg, wallet_scores, yes_mid_price, signal, wallets_data,
                   args, market, holders, holder_idx, fetched, excluded,
                   exit_code, features, restVars>>

\* write_run_metadata(run_meta, outdir / "run_meta.json"); return 0
WriteRunMetadata ==
    /\ pc = "run_meta"
    /\ \E ok \in BOOLEAN :
          IF ok
          THEN /\ trace' = Append(trace, "run_meta.json")
               /\ pc' = "returned"
               /\ exit_code' = 0
               /\ UNCHANGED run_error
          ELSE /\ run_error' = "OSError"
               /\ pc' = "raised"
               /\ UNCHANGED <<trace, exit_code>>
    /\ UNCHANGED <<cfg, wallet_scores, yes_mid_price, signal, wallets_data,
                   args, market, holders, holder_idx, fetched, excluded,
                   features, restVars>>

NextRun ==
    \/ LoadConfig
    \/ ApplyOverrides
    \/ ResolveMarket
    \/ GetHolders
    \/ FetchOrderBook
    \/ ProcessHolder
    \/ ComputeScores
    \/ ComputeSignal
    \/ WriteCsv
    \/ WriteJson
    \/ WriteMarkdown
    \/ WriteRunMetadata

SpecRun == InitRun /\ [][NextRun]_vars

\* ------------------------------------------------------------------ claims: wallet scorer

WeightNames ==
    {"win_rate", "pnl_per_usd", "timing_edge", "conviction_z", "consistency"}

\* C1: for every feature vector and every configuration whose weights do not
\* sum to zero, compute_insider_likelihood_score returns a value s with
\* scoring.score_floor <= s <= scoring.score_ceiling.
C1_ScoreWithinFloorAndCeiling ==
    (pc = "score" /\ WeightsTotal(cfg.weights) # Zero) =>
        /\ score.raised = ""
        /\ RLe(cfg.scoring.score_floor, score.value)
        /\ RLe(score.value, cfg.scoring.score_ceiling)

\* C10: for every configuration, Weights.normalize returns five non-negative
\* weights whose sum is 1.0, each equal to the raw weight divided by the raw
\* sum, and it fails exactly when all five raw weights are zero.
C10_NormalizeSumsToOne ==
    pc = "normalize" =>
        /\ (w.raised # "") <=> (\A k \in WeightNames : cfg.weights[k] = Zero)
        /\ w.raised = "" =>
              /\ \A k \in WeightNames : RLe(Zero, w.value[k])
              /\ WeightsTotal(w.value) = One
              /\ \A k \in WeightNames :
                    RMul(w.value[k], WeightsTotal(cfg.weights)) = cfg.weights[k]

\* ------------------------------------------------------------------ claims: market signal

RECURSIVE SumTo(_, _)
\* f[1] + ... + f[n]
SumTo(f, n) == IF n = 0 THEN Zero ELSE RAdd(SumTo(f, n - 1), f[n])

InUnitBall(x) == RLe(Num(-1), x) /\ RLe(x, One)

StakeSum == SumTo([i \in 1..Len(wallet_scores) |->
                      wallet_scores[i].current_stake_usd], Len(wallet_scores))

\* The share of wallet i in the total stake (total stake not zero).
ShareOf(i) == RDiv(wallet_scores[i].current_stake_usd, StakeSum)

Cap == cfg.caps.max_influence_single_wallet

\* C2: the MarketSignal returned by compute_market_signal has holder_signal
\* in [-1,1], final_score in [-1,1], dir_score absent or in [-1,1], and
\* direction in {UP, DOWN, FLAT}.
C2_SignalRanges ==
    pc = "signal" =>
        /\ signal.raised = ""
        /\ InUnitBall(signal.holder_signal)
        /\ InUnitBall(signal.final_score)
        /\ signal.dir_score = None \/ InUnitBall(signal.dir_score)
        /\ signal.direction \in {"UP", "DOWN", "FLAT"}

\* C2 witness: the blend of holder signal and price direction exceeds 1 and
\* the returned final score is the clipped value 1.
C2_Witness ==
    /\ pc = "signal"
    /\ wallet_scores # <<>>
    /\ signal.dir_score # None
    /\ RLt(One, RAdd(RMul(cfg.market_signal.holder_weight, signal.holder_signal),
                     RMul(cfg.market_signal.dir_weight, signal.dir_score)))
    /\ signal.final_score = One

\* C3: with a non-empty wallet list, holder_signal is 0 if the stakes sum to
\* 0; otherwise it is the sum over wallets of
\* score * min(stake/total_stake, cap) * (+1 for YES, -1 otherwise), clipped
\* to [-1,1], the capped weights not being renormalized.
C3_HolderSignal ==
    (pc = "signal" /\ wallet_scores # <<>>) =>
        IF StakeSum = Zero
        THEN signal.holder_signal = Zero
        ELSE LET term == [i \in 1..Len(wallet_scores) |->
                    LET wt == IF RLe(ShareOf(i), Cap) THEN ShareOf(i) ELSE Cap
                        sc == wallet_scores[i].insider_likelihood_score
                    IN  IF wallet_scores[i].current_side = "YES"
                        THEN RMul(sc, wt) ELSE RNeg(RMul(sc, wt))]
                 total == SumTo(term, Len(wallet_scores))
             IN  signal.holder_signal =
                    (IF RLt(total, Num(-1)) THEN Num(-1)
                     ELSE IF RLt(One, total) THEN One ELSE total)

\* C3 witness: a wallet whose share exceeds the cap, with a non-zero signal.
C3_Witness ==
    /\ pc = "signal"
    /\ wallet_scores # <<>>
    /\ StakeSum # Zero
    /\ \E i \in 1..Len(wallet_scores) : RLt(Cap, ShareOf(i))
    /\ signal.holder_signal # Zero

\* C4: with non-negative stakes and a positive total stake, each wallet's
\* influence weight is at most caps.max_influence_single_wallet (so its
\* absolute contribution is at most cap * score), and the influence weights
\* sum to at most 1.
C4_InfluenceCapped ==
    (pc = "signal" /\ wallet_scores # <<>> /\ RLt(Zero, StakeSum)) =>
        LET n == Len(wallet_scores)
            wt == [i \in 1..n |->
                      InfluenceWeight(StakeShare(wallet_scores[i].current_stake_usd,
                                                 TotalStake(wallet_scores)), cfg)]
            contributions == Contributions(wallet_scores,
                                           TotalStake(wallet_scores), cfg)
        IN  /\ \A i \in 1..n :
                  /\ RLe(wt[i], Cap)
                  /\ RLe(RAbs(contributions[i]),
                         RMul(Cap, wallet_scores[i].insider_likelihood_score))
            /\ RLe(SumTo(wt, n), One)

\* C4 witness: one wallet holds more than the cap allows and the weights sum
\* to less than 1.
C4_Witness ==
    /\ pc = "signal"
    /\ wallet_scores # <<>>
    /\ RLt(Zero, StakeSum)
    /\ \E i \in 1..Len(wallet_scores) :
          /\ RLt(Cap, ShareOf(i))
          /\ RLt(Zero, wallet_scores[i].insider_likelihood_score)
    /\ RLt(SumTo([i \in 1..Len(wallet_scores) |->
                     InfluenceWeight(ShareOf(i), cfg)], Len(wallet_scores)), One)

\* C5: the direction label is a function of final_score alone: UP iff
\* final_score >= 0.25, DOWN iff final_score <= -0.25, FLAT otherwise, the
\* thresholds being inclusive and the same under every configuration.
C5_DirectionFromFinalScore ==
    pc = "signal" =>
        /\ signal.direction = "UP" <=> RLe(Rat(1, 4), signal.final_score)
        /\ signal.direction = "DOWN" <=> RLe(signal.final_score, Rat(-1, 4))
        /\ signal.direction = "FLAT" <=>
              (RLt(Rat(-1, 4), signal.final_score)
               /\ RLt(signal.final_score, Rat(1, 4)))

\* C5 witness: a final score of exactly 0.25 labelled UP.
C5_Witness ==
    /\ pc = "signal"
    /\ wallet_scores # <<>>
    /\ signal.final_score = Rat(1, 4)
    /\ signal.direction = "UP"

\* C6: with a non-empty wallet list, dir_score is present iff a mid price is
\* supplied and market_signal.use_dir_from_price is true, and then equals
\* (price - 0.5) * 2; final_score is
\* clip(holder_weight*holder_signal + dir_weight*dir_score, -1, 1) when
\* dir_score is present and holder_signal otherwise.
C6_DirScoreAndFinalScore ==
    (pc = "signal" /\ wallet_scores # <<>>) =>
        LET present == yes_mid_price # None
                       /\ cfg.market_signal.use_dir_from_price
            blend == RAdd(RMul(cfg.market_signal.holder_weight,
                               signal.holder_signal),
                          RMul(cfg.market_signal.dir_weight, signal.dir_score))
        IN  /\ signal.dir_score # None <=> present
            /\ present =>
                  /\ signal.dir_score = RSub(RMul(Num(2), yes_mid_price), One)
                  /\ signal.final_score =
                        (IF RLt(blend, Num(-1)) THEN Num(-1)
                         ELSE IF RLt(One, blend) THEN One ELSE blend)
            /\ ~present => signal.final_score = signal.holder_signal

\* C6 witness: a price is supplied but price direction is switched off, so
\* the non-zero holder signal is the final score.
C6_Witness ==
    /\ pc = "signal"
    /\ wallet_scores # <<>>
    /\ yes_mid_price # None
    /\ ~cfg.market_signal.use_dir_from_price
    /\ signal.dir_score = None
    /\ signal.holder_signal # Zero
    /\ signal.final_score = signal.holder_signal

\* C7: compute_market_signal never fails: for an empty wallet list it returns
\* holder_signal 0, final_score 0, direction FLAT, count 0, total stake 0 and
\* no dir_score even when a price is supplied; for a non-empty list the count
\* is the list length and the total stake the sum of the wallets' stakes.
C7_SignalTotal ==
    pc = "signal" =>
        /\ signal.raised = ""
        /\ wallet_scores = <<>> =>
              /\ signal.holder_signal = Zero
              /\ signal.final_score = Zero
              /\ signal.direction = "FLAT"
              /\ signal.top_wallets_count = 0
              /\ signal.total_stake_usd = Zero
              /\ signal.dir_score = None
        /\ wallet_scores # <<>> =>
              /\ signal.top_wallets_count = Len(wallet_scores)
              /\ signal.total_stake_usd = StakeSum

\* C7 witness: a non-empty list whose stakes are all zero yields a signal.
C7_Witness ==
    /\ pc = "signal"
    /\ wallet_scores # <<>>
    /\ StakeSum = Zero
    /\ yes_mid_price # None
    /\ signal.raised = ""
    /\ signal.top_wallets_count = Len(wallet_scores)

\* ------------------------------------------------------------------ claims: feature engine

InUnit(x) == RLe(Zero, x) /\ RLe(x, One)

\* C8: for every wallet input and every configuration, each of the five
\* components of the FeatureVector returned by compute_features lies in
\* [0,1].
C8_FeaturesInUnitInterval ==
    (pc = "features" /\ features.raised = "") =>
        \A k \in WeightNames : InUnit(features.value[k])

\* C9: compute_features never raises: for every list of closed positions,
\* every stake and every configuration (any caps.feature_clip_pct, any
\* history.min_sample) it returns a FeatureVector and a sample_size.
C9_FeaturesNeverRaise ==
    pc = "features" => features.raised = ""

\* ------------------------------------------------------------------ claims: batch scoring

ZeroSumWeights == WeightsTotal(cfg.weights) = Zero

NothingScored ==
    /\ scores = <<>>
    /\ wallet_scores = <<>>
    /\ signal = NotCalled

\* C11 as stated: when the configured weights sum to zero, scoring fails with
\* a configuration error before any wallet is processed, for every list of
\* wallets handed to the scorer: the call never returns, no WalletScore is
\* produced and no market signal is computed.
C11_ZeroWeightsFailForEveryList ==
    (ZeroSumWeights /\ pc # "start") =>
        /\ pc \in {"scoring", "raised"}
        /\ NothingScored
        /\ (pc = "scoring" => wallets_data # <<>>)

\* C11 amended: when the configured weights sum to zero, scoring a non-empty
\* list fails with the ValueError of Weights.normalize while the first wallet
\* is scored, so no WalletScore is produced and no market signal is computed;
\* an empty list is returned as an empty result without any error.
C11_ZeroWeightsFailOnFirstWallet ==
    (ZeroSumWeights /\ pc # "start") =>
        /\ wallets_data # <<>> =>
              /\ pc \in {"scoring", "raised"}
              /\ NothingScored
        /\ wallets_data = <<>> =>
              /\ pc \in {"scoring", "scored", "aggregated"}
              /\ scores = <<>>
              /\ pc # "scoring" => wallet_scores = <<>>

C11_Witness ==
    /\ ZeroSumWeights
    /\ pc = "raised"
    /\ Len(wallets_data) = 2
    /\ WalletScoreOf(wallets_data[1], cfg).raised = "ValueError"

\* C13: for every wallet tuple processed by compute_wallet_scores,
\* low_sample_flag is true if and only if sample_size < history.min_sample.
C13_LowSampleFlag ==
    \A i \in 1..Len(scores) :
        /\ scores[i].sample_size = wallets_data[i].sample_size
        /\ scores[i].low_sample_flag <=>
              (wallets_data[i].sample_size < cfg.history.min_sample)

C13_Witness ==
    /\ pc = "scored"
    /\ cfg.history.min_sample = 5
    /\ Len(wallet_scores) = 2
    /\ wallets_data[1].sample_size = 3 /\ wallet_scores[1].low_sample_flag
    /\ wallets_data[2].sample_size = 5 /\ ~wallet_scores[2].low_sample_flag

\* C14: for every wallet tuple, signed_contribution equals
\* insider_likelihood_score * stake_usd * sign, where sign is +1 exactly when
\* side is the string YES and -1 for every other side value; for non-negative
\* stake and score the contribution is >= 0 for YES and <= 0 for all others.
C14_SignedContribution ==
    \A i \in 1..Len(scores) :
        LET t == wallets_data[i]
            ws == scores[i]
            sign == IF t.side = "YES" THEN One ELSE Num(-1)
        IN  /\ ws.signed_contribution =
                  RMul(RMul(ws.insider_likelihood_score, t.stake_usd), sign)
            /\ (RLe(Zero, t.stake_usd) /\ RLe(Zero, ws.insider_likelihood_score)) =>
                  IF t.side = "YES" THEN RLe(Zero, ws.signed_contribution)
                  ELSE RLe(ws.signed_contribution, Zero)

C14_Witness ==
    /\ pc = "scored"
    /\ Len(wallet_scores) = 2
    /\ wallets_data[1].side = "YES" /\ RLt(Zero, wallet_scores[1].signed_contribution)
    /\ wallets_data[2].side = "yes" /\ RLt(wallet_scores[2].signed_contribution, Zero)

\* C15: compute_wallet_scores returns exactly one WalletScore per input tuple
\* in input order, output i carrying the address, name, stake, side, features
\* and sample_size of input i, and the score, contribution and flag of output
\* i are a function of input i and the configuration alone.
C15_OnePerTupleInOrder ==
    pc \in {"scored", "aggregated"} =>
        /\ Len(wallet_scores) = Len(wallets_data)
        /\ \A i \in 1..Len(wallets_data) :
              LET t == wallets_data[i]
                  ws == wallet_scores[i]
                  ils == compute_insider_likelihood_score(t.features, cfg).value
              IN  /\ ws.address = t.address
                  /\ ws.username = t.username
                  /\ ws.current_stake_usd = t.stake_usd
                  /\ ws.current_side = t.side
                  /\ ws.features = t.features
                  /\ ws.sample_size = t.sample_size
                  /\ ws.insider_likelihood_score = ils
                  /\ ws.signed_contribution =
                        RMul(RMul(ils, t.stake_usd),
                             IF t.side = "YES" THEN One ELSE Num(-1))
                  /\ ws.low_sample_flag = (t.sample_size < cfg.history.min_sample)

C15_Witness ==
    /\ pc = "scored"
    /\ Len(wallet_scores) = 2
    /\ wallets_data[1].address # wallets_data[2].address
    /\ wallet_scores[1].address = "0xa"
    /\ wallet_scores[1].insider_likelihood_score #
           wallet_scores[2].insider_likelihood_score

\* ------------------------------------------------------------------ claims: feature values

\* The filtered positions of the call, and the stake of each.
Filtered == EarningsPositions(closed_positions)
StakeOf(p) == RAbs(RiskedOrPnl(p))
FilteredStakes == [i \in 1..Len(Filtered) |-> StakeOf(Filtered[i])]
WinningStakes ==
    [i \in 1..Len(Filtered) |->
        IF Filtered[i].was_winner THEN StakeOf(Filtered[i]) ELSE Zero]

Returned == pc = "features" /\ features.raised = ""

\* The stakes 1000, 2000, 3000 with wins true, false, true.
ScenarioHistory ==
    /\ Len(Filtered) = 3
    /\ FilteredStakes = <<Num(1000), Num(2000), Num(3000)>>
    /\ [i \in 1..3 |-> Filtered[i].was_winner] = <<TRUE, FALSE, TRUE>>

\* C12: win_rate for a non-empty filtered position list with positive total
\* stake equals clip(shrink_to_prior(W, prior, nObs, nPrior), 0, 1), W being
\* the stake of the winning positions over the stake of all, nObs the number
\* of filtered positions and nPrior history.min_sample; the stakes 1000, 2000,
\* 3000 with wins true, false, true, prior 0.5 and min_sample 5 give 0.5625.
C12_WinRate ==
    (Returned /\ Filtered # <<>> /\ RLt(Zero, RSum(FilteredStakes))) =>
        /\ features.value.win_rate =
              clip(shrink_to_prior(RDiv(RSum(WinningStakes), RSum(FilteredStakes)),
                                   cfg.scoring.shrinkage_prior,
                                   Len(Filtered),
                                   cfg.history.min_sample),
                   Zero, One)
        /\ (/\ ScenarioHistory
            /\ cfg.scoring.shrinkage_prior = Half
            /\ cfg.history.min_sample = 5) =>
              features.value.win_rate = Rat(5625, 10000)

C12_Witness ==
    /\ Returned
    /\ ScenarioHistory
    /\ cfg.scoring.shrinkage_prior = Half
    /\ cfg.history.min_sample = 5
    /\ features.value.win_rate = Rat(9, 16)

AllStakesEqual ==
    \A i \in 1..Len(Filtered) : StakeOf(Filtered[i]) = StakeOf(Filtered[1])

\* C16: degenerate data maps to the neutral values instead of failing: with
\* no filtered positions compute_features returns sample_size 0, win_rate
\* equal to scoring.shrinkage_prior and the other four features 0.5; with
\* filtered positions whose stakes are all zero, win_rate is the prior and
\* pnl_per_usd and conviction_z are 0.5; with historical stakes of zero
\* variance conviction_z is 0.5 for every current stake.
C16_DegenerateDataIsNeutral ==
    pc = "features" =>
        /\ Filtered = <<>> =>
              /\ features.raised = ""
              /\ features.sample_size = 0
              /\ features.value =
                    [win_rate |-> cfg.scoring.shrinkage_prior,
                     pnl_per_usd |-> Half, timing_edge |-> Half,
                     conviction_z |-> Half, consistency |-> Half]
        /\ (Filtered # <<>> /\ \A i \in 1..Len(Filtered) :
                                   StakeOf(Filtered[i]) = Zero) =>
              /\ features.raised = ""
              /\ features.value.win_rate = cfg.scoring.shrinkage_prior
              /\ features.value.pnl_per_usd = Half
              /\ features.value.conviction_z = Half
        /\ (Filtered # <<>> /\ AllStakesEqual /\ features.raised = "") =>
              features.value.conviction_z = Half

\* The ratios pnl / stake of the filtered positions with a positive stake.
PositiveStakePositions ==
    SelectSeq(Filtered, LAMBDA p : RLt(Zero, StakeOf(p)))
Ratios ==
    [i \in 1..Len(PositiveStakePositions) |->
        RDiv(PositiveStakePositions[i].pnl_usd,
             StakeOf(PositiveStakePositions[i]))]

\* The element at index floor(m/2), counted from 0, of the sorted list.
MedianOf(list) == Sorted(list)[(Len(list) \div 2) + 1]

\* C17: pnl_per_usd is computed from the ratios pnl / |amount_risked or pnl|
\* of exactly the filtered positions with a positive stake: the ratios are
\* winsorized at caps.feature_clip_pct, the median of the winsorized list is
\* the element at index floor(m/2) of the sorted list, and the result is
\* clip((median + 0.5) / 2, 0, 1); with no ratio the result is 0.5.
C17_PnlPerUsd ==
    Returned =>
        IF Ratios = <<>> THEN features.value.pnl_per_usd = Half
        ELSE LET median ==
                     MedianOf(winsorize(Ratios, cfg.caps.feature_clip_pct).value)
             IN  features.value.pnl_per_usd =
                     RMax(Zero, RMin(One, RDiv(RAdd(median, Half), Num(2))))

C17_Witness ==
    /\ Returned
    /\ Len(Filtered) = 2
    /\ Len(Ratios) = 1
    /\ Ratios[1] = Rat(-1, 3)
    /\ features.value.pnl_per_usd = Rat(1, 12)

\* C18: timing_edge and consistency are the constant 0.5 in every
\* FeatureVector returned by compute_features, whatever the trade list, the
\* closed positions, the stake and the configuration.
C18_PlaceholdersAreHalf ==
    Returned =>
        /\ features.value.timing_edge = Half
        /\ features.value.consistency = Half

C18_Witness ==
    /\ Returned
    /\ Len(Filtered) = 3
    /\ features.value.win_rate # Half
    /\ features.value.conviction_z # Half
    /\ features.value.timing_edge = Half
    /\ features.value.consistency = Half

\* ------------------------------------------------------------------ claims: utilities

\* floor(a) for a float a.
Floor(a) == a[1] \div a[2]

\* idx clamped into [0, n-1].
Clamped(idx, n) == IF idx < 0 THEN 0 ELSE IF idx > n - 1 THEN n - 1 ELSE idx

\* C20: for every non-empty sequence of length n and every clipPct, winsorize
\* clips each value into [sorted[lowerIdx], sorted[upperIdx]] where lowerIdx =
\* floor(n*(1-clipPct)/2) and upperIdx = floor(n*(1+clipPct)/2), each index
\* clamped into [0, n-1] when it falls outside; the output has the length and
\* the element order of the input.
C20_WinsorizeClampsIndices ==
    (pc = "winsorized" /\ arg_values # <<>>) =>
        LET n == Len(arg_values)
            sorted_vals == Sorted(arg_values)
            lowerIdx == Clamped(Floor(RDiv(RMul(Num(n), RSub(One, arg_clip_pct)),
                                           Num(2))), n)
            upperIdx == Clamped(Floor(RDiv(RMul(Num(n), RAdd(One, arg_clip_pct)),
                                           Num(2))), n)
        IN  /\ win_result.raised = ""
            /\ Len(win_result.value) = n
            /\ \A i \in 1..n :
                  win_result.value[i] =
                      RMax(sorted_vals[lowerIdx + 1],
                           RMin(sorted_vals[upperIdx + 1], arg_values[i]))

\* ------------------------------------------------------------------ claims: market signal scenario

\* Two wallets with score 0.8: 6000 on YES and 4000 on NO, cap 0.33.
ScenarioWallets ==
    /\ pc = "signal"
    /\ Len(wallet_scores) = 2
    /\ wallet_scores[1] = [insider_likelihood_score |-> Rat(8, 10),
                           current_stake_usd |-> Num(6000),
                           current_side |-> "YES"]
    /\ wallet_scores[2] = [insider_likelihood_score |-> Rat(8, 10),
                           current_stake_usd |-> Num(4000),
                           current_side |-> "NO"]
    /\ cfg.caps.max_influence_single_wallet = Rat(33, 100)

ScenarioBlend ==
    /\ cfg.market_signal.use_dir_from_price
    /\ cfg.market_signal.holder_weight = Rat(7, 10)
    /\ cfg.market_signal.dir_weight = Rat(3, 10)

\* C19: two wallets with equal score 0.8, stakes 6000 (YES) and 4000 (NO) and
\* max_influence_single_wallet 0.33 both have their weight capped to 0.33,
\* giving holder_signal 0.0, and with no price final_score 0.0 and direction
\* FLAT; with mid price 0.75, holder_weight 0.7 and dir_weight 0.3 the same
\* wallets give dir_score 0.5, final_score 0.15 and direction FLAT.
C19_CappedScenario ==
    ScenarioWallets =>
        /\ \A i \in 1..2 :
              /\ RLt(Rat(33, 100), ShareOf(i))
              /\ InfluenceWeight(ShareOf(i), cfg) = Rat(33, 100)
        /\ signal.raised = ""
        /\ signal.holder_signal = Zero
        /\ yes_mid_price = None =>
              /\ signal.dir_score = None
              /\ signal.final_score = Zero
              /\ signal.direction = "FLAT"
        /\ (yes_mid_price = Rat(3, 4) /\ ScenarioBlend) =>
              /\ signal.dir_score = Half
              /\ signal.final_score = Rat(15, 100)
              /\ signal.direction = "FLAT"

C19_Witness ==
    /\ ScenarioWallets
    /\ ScenarioBlend
    /\ yes_mid_price = Rat(3, 4)
    /\ signal.final_score = Rat(3, 20)
    /\ signal.direction = "FLAT"

\* The scenario without a price.
C19_WitnessNoPrice ==
    /\ ScenarioWallets
    /\ yes_mid_price = None
    /\ signal.final_score = Zero
    /\ signal.direction = "FLAT"

\* C21: winsorize([1,2,3,4,5,6,7,8,9,10], 0.8) clips the two extreme values
\* 1 and 10 to the 10th/90th percentile bounds (1 becomes 2, 10 becomes 9)
\* and leaves every interior value unchanged; winsorize of the empty list
\* returns the empty list for every clipPct.
C21_ExtremesClipped ==
    pc = "winsorized" =>
        /\ (arg_values = OneToTen /\ arg_clip_pct = PointEight) =>
              /\ win_result.raised = ""
              /\ win_result.value =
                    [i \in 1..10 |->
                        IF i = 1 THEN Num(2) ELSE IF i = 10 THEN Num(9)
                        ELSE Num(i)]
        /\ arg_values = <<>> =>
              /\ win_result.raised = ""
              /\ win_result.value = <<>>

C22_WitnessBlend ==
    /\ pc = "shrunk"
    /\ util_args = [observed |-> One, prior |-> Half, n_observations |-> 3,
                    n_prior |-> 5]
    /\ util_result.value = Rat(11, 16)

AllWeightsZero ==
    \A i \in 1..Len(util_args.weights) : util_args.weights[i] = Zero

\* sum(v*w) / sum(w) of the call, for equal lengths and sum(w) # 0.
MeanOfCall ==
    RDiv(SumTo([i \in 1..Len(util_args.values) |->
                   RMul(util_args.values[i], util_args.weights[i])],
               Len(util_args.values)),
         SumTo(util_args.weights, Len(util_args.weights)))

\* C23 as stated: weighted_mean fails with an argument error whenever values
\* and weights differ in length (checked before anything else), returns 0.0
\* when both are empty, fails with an argument error when all weights are
\* zero, and otherwise returns sum(v*w)/sum(w); for no input does it divide
\* by zero.
C23_FailsOnlyForAllZeroWeights ==
    pc = "averaged" =>
        IF Len(util_args.values) # Len(util_args.weights)
        THEN util_result.raised = "ValueError"
        ELSE IF util_args.values = <<>>
        THEN util_result.raised = "" /\ util_result.value = Zero
        ELSE IF AllWeightsZero
        THEN util_result.raised = "ValueError"
        ELSE /\ util_result.raised = ""
             /\ SumTo(util_args.weights, Len(util_args.weights)) # Zero
             /\ util_result.value = MeanOfCall

\* C23 amended: weighted_mean fails with an argument error whenever values
\* and weights differ in length (checked before anything else), returns 0.0
\* when both are empty, fails with an argument error when the weights sum to
\* zero (all of them zero or not), and otherwise returns sum(v*w)/sum(w);
\* for no input does it divide by zero.
C23_FailsForZeroSumWeights ==
    pc = "averaged" =>
        IF Len(util_args.values) # Len(util_args.weights)
        THEN util_result.raised = "ValueError"
        ELSE IF util_args.values = <<>>
        THEN util_result.raised = "" /\ util_result.value = Zero
        ELSE IF SumTo(util_args.weights, Len(util_args.weights)) = Zero
        THEN util_result.raised = "ValueError"
        ELSE /\ util_result.raised = ""
             /\ util_result.value = MeanOfCall

\* weights 1 and -1: not all zero, and the call fails.
C23_Witness ==
    /\ pc = "averaged"
    /\ util_args.values = <<One, Num(3)>>
    /\ util_args.weights = <<One, Num(-1)>>
    /\ util_result.raised = "ValueError"

\* ------------------------------------------------------------------ claims: purity

C25_NoStageMutates ==
    [][/\ cfg' = cfg
       /\ last_call' \in {"score", "wallets", "normalize"} => feat' = feat
       /\ last_call' = "wallets" =>
             \A i \in 1..Len(wallets_data') : wallets_data'[i].features = feat
       /\ last_call' = "signal" => wallet_scores' = wallet_scores
       /\ last_call' = "features" => closed_positions' = closed_positions
       /\ (last_call' = "normalize" /\ w'.raised = "") =>
             /\ WeightsTotal(w'.value) = One
             /\ cfg'.weights = cfg.weights]_vars

\* Raw weights that do not sum to one were normalized, scored with and
\* aggregated, and the configuration still holds the raw weights.
C25_Witness ==
    /\ calls = MaxCalls
    /\ last_call = "signal"
    /\ w.raised = ""
    /\ w.value # cfg.weights
    /\ wallet_scores # <<>>
    /\ cfg.weights = WeightsOf(One, One, One, One, One)

\* ------------------------------------------------------------------ claims: retry

Finished == pc \in {"returned", "raised"}

\* A failure that the wrapper retries while attempts remain.
Retryable(r) == IsCaught(r) /\ ~(r.kind = "HTTPStatusError" /\ r.status \in 400..499
                                 /\ r.status # 429)

\* C28: for max_attempts >= 1 the wrapped function is called at most
\* max_attempts times per invocation; the wrapper returns the result of the
\* first successful call and makes no further call after it; if every
\* attempt fails with a retryable error, the wrapper raises the exception of
\* the last attempt after exactly max_attempts calls, sleeping between
\* attempts but not after the final one.
C28_BoundedAttempts ==
    (pc # "start" /\ max_attempts >= 1) =>
        /\ Len(outcomes) <= max_attempts
        /\ \A i \in 1..Len(outcomes) :
              outcomes[i].kind = "ok" =>
                  /\ i = Len(outcomes)
                  /\ pc = "returned"
                  /\ outcome = [raised |-> "", value |-> outcomes[i]]
        /\ pc = "returned" => outcomes[Len(outcomes)].kind = "ok"
        /\ (Finished /\ \A i \in 1..Len(outcomes) : Retryable(outcomes[i])) =>
              /\ pc = "raised"
              /\ Len(outcomes) = max_attempts
              /\ outcome.value = outcomes[max_attempts]
              /\ Len(sleeps) = max_attempts - 1
        /\ Len(sleeps) <= Len(outcomes)
        /\ Finished => Len(sleeps) = Len(outcomes) - 1
        /\ (pc = "loop" /\ attempt >= max_attempts) =>
              \A i \in 1..Len(outcomes) : Retryable(outcomes[i])

\* Three retryable failures with max_attempts 3: two sleeps, and the third
\* exception is raised.
C28_Witness ==
    /\ pc = "raised"
    /\ max_attempts = 3
    /\ Len(outcomes) = 3
    /\ outcomes[1].status = 503 /\ outcomes[2].kind = "RequestError"
    /\ outcomes[3].status = 429
    /\ outcome.value = outcomes[3]
    /\ sleeps = <<1, 2>>

\* C28 witness of a success on the second call.
C28_WitnessReturned ==
    /\ pc = "returned"
    /\ max_attempts = 3
    /\ Len(outcomes) = 2
    /\ Len(sleeps) = 1

\* C29: an HTTP status error with status code in 400..499 other than 429 is
\* never retried: it is re-raised from the attempt in which it occurs, with
\* no sleep and no further call of the wrapped function; status 429, 5xx
\* status errors and request errors are retried while attempts remain; any
\* other exception type propagates immediately without retry.
C29_ClientErrorsNotRetried ==
    \A i \in 1..Len(outcomes) :
        LET r == outcomes[i]
        IN  /\ (r.kind = "HTTPStatusError" /\ r.status \in 400..499
                /\ r.status # 429) =>
                  /\ i = Len(outcomes)
                  /\ pc = "raised"
                  /\ outcome = [raised |-> r.kind, value |-> r]
                  /\ Len(sleeps) = i - 1
            /\ r.kind \notin {"ok", "HTTPStatusError", "RequestError"} =>
                  /\ i = Len(outcomes)
                  /\ pc = "raised"
                  /\ outcome = [raised |-> r.kind, value |-> r]
                  /\ Len(sleeps) = i - 1
            /\ ((\/ r.kind = "RequestError"
                 \/ r.kind = "HTTPStatusError" /\ r.status = 429
                 \/ r.kind = "HTTPStatusError" /\ r.status \in 500..599)
                /\ i < max_attempts) =>
                  \/ pc = "sleep" /\ i = Len(outcomes) /\ Len(sleeps) = i - 1
                  \/ Len(sleeps) >= i /\ (Len(outcomes) > i \/ pc = "loop")

\* A 429 is retried and the 499 that follows is re-raised at once.
C29_Witness ==
    /\ pc = "raised"
    /\ max_attempts = 3
    /\ Len(outcomes) = 2
    /\ outcomes[1].status = 429
    /\ outcomes[2].status = 499
    /\ outcome.value = outcomes[2]
    /\ Len(sleeps) = 1

\* ------------------------------------------------------------------ claims: run_analysis

\* C26 as stated: within one run the configuration is created once, and no
\* field of it is changed after construction by any later step of the run.
C26_NeverMutated == [][cfg # NoConfig => cfg' = cfg]_vars

\* C26, amended: the configuration is constructed once, by the first step
\* of the run, from the defaults or from the external file; the step that
\* follows construction sets history.min_sample and
\* history.lookback_quarters to the values given on the command line and
\* changes no other field; no later step of the run changes any field.
C26_OnlyOverridesChange ==
    [][/\ (cfg = NoConfig /\ cfg' # NoConfig) =>
             /\ pc = "start"
             /\ cfg' = IF args.config = "None" THEN DefaultConfig
                       ELSE from_yaml(args.config).value
       /\ cfg # NoConfig =>
             IF pc = "overrides"
             THEN /\ \A k \in DOMAIN cfg \ {"history"} : cfg'[k] = cfg[k]
                  /\ DOMAIN cfg' = DOMAIN cfg
                  /\ cfg'.history.min_sample =
                        IF args.min_sample = <<>> THEN cfg.history.min_sample
                        ELSE args.min_sample[1]
                  /\ cfg'.history.lookback_quarters =
                        IF args.since_quarters = <<>>
                        THEN cfg.history.lookback_quarters
                        ELSE args.since_quarters[1]
             ELSE cfg' = cfg]_vars

\* A run with --min-sample 3 --since-quarters 8 and the default
\* configuration has returned 0 with the two fields overridden.
C26_Witness ==
    /\ pc = "returned"
    /\ exit_code = 0
    /\ args.config = "None"
    /\ cfg # DefaultConfig
    /\ cfg = [DefaultConfig EXCEPT !.history.min_sample = 3,
                                   !.history.lookback_quarters = 8]

\* The features of the i-th holder, from what was fetched for it.
FeaturesOfHolder(i) ==
    compute_features(holders[i].amount_usd, fetched[i].positions, <<>>, cfg)

FeaturesRaised(i) == FeaturesOfHolder(i).raised # ""

\* The wallets of the first n holders: those whose features did not raise
\* (and, when fetch_failure_excludes, whose history fetch did not fail) and
\* that pass the activity filter, in holder order.
RECURSIVE WalletsKept(_, _)
WalletsKept(n, fetch_failure_excludes) ==
    IF n = 0 THEN <<>>
    ELSE IF /\ ~FeaturesRaised(n)
            /\ ~(fetch_failure_excludes /\ fetched[n].http_failed)
            /\ ~SkippedByFilter(holders[n], fetched[n].positions, cfg)
         THEN Append(WalletsKept(n - 1, fetch_failure_excludes),
                     WalletTuple(holders[n], FeaturesOfHolder(n)))
         ELSE WalletsKept(n - 1, fetch_failure_excludes)

Files == {"holders.csv", "holders.json", "report.md", "run_meta.json"}

Positions(name) == {i \in 1..Len(trace) : trace[i] = name}

\* C30: run_analysis produces exactly one MarketSignal per successful run,
\* computed after all wallet scores and before any report is written; when
\* the market cannot be resolved, no holders are found, or no wallet
\* remains after processing, it returns exit code 1 without computing a
\* signal and without writing any output file; on every run that returns 0
\* the run metadata file is written regardless of which save flags are set.
C30_OneSignalPerRun ==
    /\ Cardinality(Positions("signal")) <= 1
    /\ Cardinality(Positions("scores")) <= 1
    /\ \A i \in Positions("signal") : i = 2 /\ trace[1] = "scores"
    /\ \A i \in 1..Len(trace) : trace[i] \in Files => trace[2] = "signal" /\ i > 2
    /\ (pc = "returned" /\ exit_code = 0) =>
          /\ Cardinality(Positions("signal")) = 1
          /\ signal # NotCalled
          /\ trace[Len(trace)] = "run_meta.json"
          /\ Positions("holders.csv") # {} <=> args.save_csv
          /\ Positions("holders.json") # {} <=> args.save_json
          /\ Positions("report.md") # {} <=> args.save_md
    /\ (pc = "returned" /\ exit_code = 1) =>
          /\ trace = <<>>
          /\ signal = NotCalled
    /\ (pc = "returned" /\ args # NoArgs) =>
          /\ exit_code \in {0, 1}
          /\ exit_code = 1 <=>
                \/ market = "unresolved"
                \/ holders = <<>>
                \/ wallets_data = <<>>
    /\ pc \in {"signal", "csv", "json", "md", "run_meta"} =>
          /\ exit_code = -1
          /\ wallets_data # <<>>

\* A run with --save-csv alone has returned 0.
C30_Witness ==
    /\ pc = "returned"
    /\ exit_code = 0
    /\ trace = <<"scores", "signal", "holders.csv", "run_meta.json">>
    /\ signal # NotCalled

\* C30 witness of a run in which no wallet remains: every holder was
\* skipped or raised.
C30_WitnessNoWallets ==
    /\ pc = "returned"
    /\ exit_code = 1
    /\ holders # <<>>
    /\ excluded # <<>>
    /\ wallets_data = <<>>
    /\ trace = <<>>


====
